---- MODULE Spec2Model ----
(***************************************************************************)
(* A model of the JSON Schema validator of sql/json_schema.cc: the schema  *)
(* compiler (create_object_and_handle_keyword, add_schema_interdependence) *)
(* and the keyword classes' validate methods, over a token-level model of  *)
(* the streaming JSON engine (json_engine_t) the code scans with.          *)
(*                                                                         *)
(* Conventions taken from the source: a validate / handle_keyword method   *)
(* returns true on FAILURE and false on success.                           *)
(***************************************************************************)
EXTENDS Integers, Sequences, FiniteSets, TLC

(***************************************************************************)
(* JSON documents as token sequences.  Commas and colons are implicit.     *)
(***************************************************************************)
Tok(tk, s, n) == [tk |-> tk, s |-> s, n |-> n]

JNum(n) == << Tok("num", "", n) >>
JStr(s) == << Tok("str", s, 0) >>
JTrue == << Tok("true", "", 0) >>
JFalse == << Tok("false", "", 0) >>
JNull == << Tok("null", "", 0) >>

RECURSIVE Flatten(_)
Flatten(docs) ==
  IF docs = << >> THEN << >> ELSE Head(docs) \o Flatten(Tail(docs))

JArr(elems) == << Tok("[", "", 0) >> \o Flatten(elems) \o << Tok("]", "", 0) >>

Member(k, doc) == << Tok("key", k, 0) >> \o doc

\* members: a sequence of Member(k, doc)
JObj(members) == << Tok("{", "", 0) >> \o Flatten(members) \o << Tok("}", "", 0) >>

ScalarToks == {"num", "str", "true", "false", "null"}

\* enum json_value_types of the JSON library, by name
TypeOfTok(tk) ==
  CASE tk = "{" -> "object"
    [] tk = "[" -> "array"
    [] tk = "str" -> "string"
    [] tk = "num" -> "number"
    [] tk = "true" -> "true"
    [] tk = "false" -> "false"
    [] tk = "null" -> "null"
    [] OTHER -> "uninit"

\* a local binding: the value is computed once and handed to the body
Let(value, In(_)) == In(value)

(***************************************************************************)
(* The streaming engine json_engine_t.                                     *)
(*   d    the document, lim its last position                              *)
(*   p    position of the next unread token                                *)
(*   stk  the stack of open composites ("O"/"A"); stack_p = Len(stk)       *)
(*   st   the state, vt the value_type, v the position of the value read   *)
(*   rc   the return code of the last call (0 = success)                   *)
(***************************************************************************)
json_scan_start(d, from, to) ==
  [d |-> d, p |-> from, lim |-> to, stk |-> << >>, st |-> "VALUE",
   vt |-> "uninit", v |-> 0, rc |-> 0]

stack_p(je) == Len(je.stk)

At(je) == IF je.p >= 1 /\ je.p <= je.lim THEN je.d[je.p].tk ELSE "EOS"

Fail(je) == [je EXCEPT !.rc = 1]

Front(s) == SubSeq(s, 1, Len(s) - 1)

ContState(stk) ==
  IF stk = << >> THEN "DONE"
  ELSE IF stk[Len(stk)] = "O" THEN "OBJ_CONT" ELSE "ARRAY_CONT"

\* the value handlers of the engine: read the value that starts at je.p
ReadAt(je) ==
  LET tk == At(je) IN
  CASE tk = "{" -> [je EXCEPT !.stk = Append(@, "O"), !.st = "OBJ_START",
                              !.vt = "object", !.v = je.p, !.p = @ + 1, !.rc = 0]
    [] tk = "[" -> [je EXCEPT !.stk = Append(@, "A"), !.st = "ARRAY_START",
                              !.vt = "array", !.v = je.p, !.p = @ + 1, !.rc = 0]
    [] tk \in ScalarToks -> [je EXCEPT !.st = ContState(je.stk), !.vt = TypeOfTok(tk),
                                       !.v = je.p, !.p = @ + 1, !.rc = 0]
    [] OTHER -> Fail(je)

EndLevel(je) ==
  IF je.stk = << >> THEN Fail(je)
  ELSE [je EXCEPT !.st = IF je.stk[Len(je.stk)] = "O" THEN "OBJ_END" ELSE "ARRAY_END",
                  !.stk = Front(@), !.p = @ + 1, !.rc = 0]

\* passes over the value that starts at je.p: only json_read_value sets the
\* value type and the value's position
SkipAt(je) == [ReadAt(je) EXCEPT !.vt = je.vt, !.v = je.v]

json_scan_next(je) ==
  LET tk == At(je) IN
  CASE je.st = "KEY" -> SkipAt([je EXCEPT !.p = @ + 1])
    [] je.st = "VALUE" -> SkipAt(je)
    [] je.st = "OBJ_START" ->
         IF tk = "}" THEN EndLevel(je)
         ELSE IF tk = "key" THEN [je EXCEPT !.st = "KEY", !.rc = 0]
         ELSE Fail(je)
    [] je.st = "ARRAY_START" ->
         IF tk = "]" THEN EndLevel(je)
         ELSE IF tk \in ScalarToks \cup {"{", "["} THEN [je EXCEPT !.st = "VALUE", !.rc = 0]
         ELSE Fail(je)
    [] je.st = "KEYSTR" -> Fail(je)
    [] OTHER ->  \* OBJ_CONT, ARRAY_CONT, OBJ_END, ARRAY_END, DONE
         IF tk = "EOS" THEN Fail(je)
         ELSE IF tk \in {"}", "]"} THEN EndLevel(je)
         ELSE IF je.stk = << >> THEN Fail(je)
         ELSE IF je.stk[Len(je.stk)] = "O"
              THEN IF tk = "key" THEN [je EXCEPT !.st = "KEY", !.rc = 0] ELSE Fail(je)
              ELSE [je EXCEPT !.st = "VALUE", !.rc = 0]

json_read_value(je) ==
  CASE je.st = "KEY" -> ReadAt([je EXCEPT !.p = @ + 1])
    [] je.st \in {"VALUE", "ARRAY_START"} -> ReadAt(je)
    [] je.st = "OBJ_START" /\ At(je) = "key" ->
         \* the key's quoted name is read as a string value; a ':' follows
         [je EXCEPT !.st = "KEYSTR", !.vt = "string", !.v = je.p, !.p = @ + 1, !.rc = 0]
    [] OTHER -> Fail(je)   \* a ',' ':' '}' ']' or the end of the text follows

\* reads the key name at the cursor (the json_read_keyname_chr loop)
KeyAt(je) == je.d[je.p].s

json_read_keyname(je) == [je EXCEPT !.p = @ + 1, !.st = "VALUE"]

json_value_scalar(je) == je.vt \in {"string", "number", "true", "false", "null"}

RECURSIVE json_skip_to_level(_, _)
json_skip_to_level(je, level) ==
  IF stack_p(je) < level THEN [je EXCEPT !.rc = 0]
  ELSE Let(json_scan_next(je), LAMBDA j :
       IF j.rc # 0 THEN j ELSE json_skip_to_level(j, level))

json_skip_level(je) == json_skip_to_level(je, stack_p(je))

\* the scalar read last
ValTok(je) == je.d[je.v]

(***************************************************************************)
(* Compiled keyword nodes.  The compiled schema lives in a heap: a         *)
(* sequence of nodes, a reference is the node's position, NULL is 0.       *)
(***************************************************************************)
NULL == 0

\* class Json_schema_keyword and the payload fields of its subclasses
NewNode(cls, name, prio, allowed_val) ==
  [cls |-> cls, keyword_name |-> name, value |-> 0, priority |-> prio,
   allowed |-> allowed_val, index |-> 0,
   alternate_schema |-> NULL, unevaluated_properties |-> NULL,
   unevaluated_items |-> NULL,
   \* Json_schema_logic's own members of the same names
   logic_unevaluated_items |-> NULL, logic_unevaluated_properties |-> NULL,
   type |-> {},               \* Json_schema_type::type, as a set of value types
   num |-> 0,                 \* maximum, minimum, max_len, max_items, max_prop, ...
   is_unique |-> FALSE,
   list |-> << >>,            \* schema_list, contains, validate_like_schema,
                              \* property_names, conditions_schema
   lists |-> << >>,           \* prefix_items, schema_items, the property schemas
   names |-> << >>,           \* property names, patterns, required_properties
   deps |-> << >>,            \* dependent_required[i].dependents
   validate_like_prefix |-> NULL,
   const_json_value |-> << >>,  \* Json_schema_const: the normalised argument
   enum_values |-> {},          \* Json_schema_enum: the normalised elements
   enum_scalar |-> {},          \* Json_schema_enum: the HAS_*_VAL flags
   min_contains |-> NULL, max_contains |-> NULL,
   if_cond |-> NULL, then_cond |-> NULL, else_cond |-> NULL]

AnnotationKeys ==
  {"title", "description", "$comment", "$schema", "deprecated", "readOnly",
   "writeOnly", "example", "default"}

FormatKeys ==
  {"date-time", "date", "time", "duration", "email", "idn-email", "hostname",
   "idn-hostname", "ipv4", "ipv6", "uri", "uri-reference", "iri",
   "iri-reference", "uuid", "json-pointer", "relative-json-pointer", "regex"}

\* keyword name -> class, for the keywords whose constructor takes no argument
PlainClass ==
  [type |-> "type", const |-> "const", enum |-> "enum", maximum |-> "maximum", minimum |-> "minimum",
   exclusiveMaximum |-> "ex_maximum", exclusiveMinimum |-> "ex_minimum",
   multipleOf |-> "multiple_of", maxLength |-> "max_len", minLength |-> "min_len",
   pattern |-> "pattern", maxItems |-> "max_items", minItems |-> "min_items",
   contains |-> "contains", maxContains |-> "max_contains",
   minContains |-> "min_contains", uniqueItems |-> "unique_items",
   propertyNames |-> "property_names", propertyName |-> "property_names",
   maxProperties |-> "max_prop", minProperties |-> "min_prop",
   required |-> "required", dependentRequired |-> "dependent_prop",
   not |-> "not", anyOf |-> "any_of", oneOf |-> "one_of", allOf |-> "all_of",
   if |-> "if", then |-> "then", else |-> "else"]

\* create_object: the node for the keyword `key`, the cursor standing on its value
create_object(je, key) ==
  CASE key = "prefixItems" -> NewNode("prefix_items", "prefixItems", 1, TRUE)
    [] key = "items" ->
         NewNode("items", "items", 2, je.vt \in {"true", "object", "array"})
    \* `je->value_type == TRUE`: TRUE is 1, the value of JSON_VALUE_OBJECT
    [] key = "additionalItems" ->
         NewNode("additional_items", "additionalItems", 3, je.vt = "object")
    [] key = "unevaluatedItems" ->
         NewNode("unevaluated_items", "unevaluatedItems", 4, je.vt = "object")
    [] key = "properties" -> NewNode("properties", "properties", 1, TRUE)
    [] key = "patternProperties" ->
         NewNode("pattern_properties", "patternProperties", 2, TRUE)
    [] key = "additionalProperties" ->
         NewNode("additional_properties", "additionalProperties", 3, je.vt = "object")
    [] key = "unevaluatedProperties" ->
         NewNode("unevaluated_properties", "unevaluatedProperties", 4, je.vt = "true")
    [] key \in DOMAIN PlainClass -> NewNode(PlainClass[key], key, 0, TRUE)
    [] key \in AnnotationKeys -> NewNode("annotation", "annotation", 0, TRUE)
    [] key \in FormatKeys -> NewNode("format", "format", 0, TRUE)
    [] OTHER -> NewNode("keyword", "", 0, TRUE)

(***************************************************************************)
(* add_schema_interdependence                                              *)
(***************************************************************************)
ArrayGroup == {"items", "prefixItems", "additionalItems", "unevaluatedItems"}
ObjectGroup ==
  {"properties", "patternProperties", "additionalProperties", "unevaluatedProperties"}
LogicGroup == {"allOf", "anyOf", "oneOf", "not"}
CondGroup == {"if", "then", "else"}

\* the last node of `ids` carrying the name, NULL when there is none
LastNamed(h, ids, name) ==
  LET sel == SelectSeq(ids, LAMBDA i : h[i].keyword_name = name) IN
  IF sel = << >> THEN NULL ELSE sel[Len(sel)]

\* bubble_sort with sort_by_priority: ascending priority, stable
RECURSIVE InsertByPriority(_, _, _)
InsertByPriority(h, sorted, id) ==
  IF sorted = << >> THEN << id >>
  ELSE IF h[Head(sorted)].priority > h[id].priority THEN << id >> \o sorted
  ELSE << Head(sorted) >> \o InsertByPriority(h, Tail(sorted), id)

RECURSIVE bubble_sort(_, _)
bubble_sort(h, ids) ==
  IF ids = << >> THEN << >>
  ELSE InsertByPriority(h, bubble_sort(h, Front(ids)), ids[Len(ids)])

\* List::elem(n), n counted from 0; NULL past the end
Elem(ids, n) == IF n + 1 <= Len(ids) THEN ids[n + 1] ELSE NULL

\* set a field of several nodes: upd is a function from node ids to new nodes
Apply(h, upd) == [i \in DOMAIN h |-> IF i \in DOMAIN upd THEN upd[i] ELSE h[i]]

\* the node that the chain `else if "then" ... else if "then"` assigns to else_cond:
\* the third branch tests the name "then" again, after the second has taken it
ElseNamed(h, ids) ==
  LET sel == SelectSeq(ids, LAMBDA i : h[i].keyword_name # "if"
                                       /\ h[i].keyword_name # "then"
                                       /\ h[i].keyword_name = "then")
  IN IF sel = << >> THEN NULL ELSE sel[Len(sel)]


\* the keywords pushed on the keyword list while the temporary list is walked
FirstPass(h, temporary) ==
  SelectSeq(temporary,
            LAMBDA i : h[i].keyword_name \notin ArrayGroup \cup ObjectGroup \cup CondGroup
                                               \cup {"minContains", "maxContains"})


\* the conditional: the error cases, set_dependents(then, else), push of `if`
AddConditional(h, list, if_cond, then_cond, else_cond) ==
  IF IF if_cond # NULL THEN then_cond = NULL /\ else_cond = NULL
     ELSE (then_cond # NULL \/ else_cond # NULL)
          /\ (then_cond = NULL \/ else_cond = NULL)
  THEN [h |-> h, err |-> TRUE, list |-> list]
  ELSE IF if_cond # NULL
  THEN [h |-> [h EXCEPT ![if_cond].then_cond = then_cond,
                        ![if_cond].else_cond = else_cond],
        err |-> FALSE, list |-> Append(list, if_cond)]
  ELSE [h |-> h, err |-> FALSE, list |-> list]


\* the combinators remember the unevaluated keywords of the object
AddLogic(r, logic_prop, unevalauted_item, unevaluated_prop) ==
  [r EXCEPT !.h = Apply(r.h, [i \in {logic_prop[k] : k \in DOMAIN logic_prop} |->
                               [r.h[i] EXCEPT !.unevaluated_items = unevalauted_item,
                                              !.unevaluated_properties = unevaluated_prop]])]


\* the array applicators, sorted: each gets its successor as alternate, the
\* first is pushed
LinkArray(r, array_prop) ==
  [r EXCEPT
     !.h = Apply(r.h, [i \in {array_prop[k] : k \in DOMAIN array_prop} |->
                        LET k == CHOOSE k \in DOMAIN array_prop : array_prop[k] = i
                        IN [r.h[i] EXCEPT !.alternate_schema = Elem(array_prop, k)]]),
     !.list = IF array_prop # << >> THEN Append(r.list, Head(array_prop)) ELSE r.list]


\* the pop loop empties a list whose first node has a priority above 2
AddArray(r, array_sorted) ==
  LinkArray(r, IF array_sorted # << >> /\ r.h[Head(array_sorted)].priority > 2
               THEN << >> ELSE array_sorted)


\* the object applicators, sorted
AddObject(r, object_prop, unevalauted_item, unevaluated_prop) ==
  [r EXCEPT
     !.h = Apply(r.h, [i \in {object_prop[k] : k \in DOMAIN object_prop} |->
                        LET k == CHOOSE k \in DOMAIN object_prop : object_prop[k] = i
                            n0 == r.h[i]
                        IN
                        Let(
                                  IF n0.priority < 4
                                  THEN [n0 EXCEPT !.alternate_schema = Elem(object_prop, k)]
                                  ELSE n0,
                            LAMBDA n1 :
                           IF n0.priority = 2
                           THEN [n1 EXCEPT !.unevaluated_properties = unevaluated_prop,
                                           !.unevaluated_items = unevalauted_item]
                           ELSE n1)]),
     !.list = IF object_prop # << >> THEN Append(r.list, Head(object_prop)) ELSE r.list]


\* Json_schema_contains::set_dependents(min, max)
AddContains(r, contains, min_contains, max_contains) ==
  IF contains # NULL
  THEN [r EXCEPT !.h[contains].min_contains = min_contains,
                 !.h[contains].max_contains = max_contains]
  ELSE r


\* the array group and the object group of the temporary list
ArrayProp(h, temporary) ==
  SelectSeq(temporary,
            LAMBDA i : h[i].keyword_name \in ArrayGroup \ {"unevaluatedItems"})


ObjectProp(h, temporary) ==
  SelectSeq(temporary, LAMBDA i : h[i].keyword_name \in ObjectGroup)


AddGroups(h, temporary, r, unevalauted_item, unevaluated_prop) ==
  Let(AddArray(AddLogic(r, SelectSeq(temporary,
                                     LAMBDA i : h[i].keyword_name \in LogicGroup),
                        unevalauted_item, unevaluated_prop),
               bubble_sort(h, ArrayProp(h, temporary))),
      LAMBDA a :
        AddContains(AddObject(a, bubble_sort(a.h, ObjectProp(h, temporary)),
                              unevalauted_item, unevaluated_prop),
                    LastNamed(h, temporary, "contains"),
                    LastNamed(h, temporary, "minContains"),
                    LastNamed(h, temporary, "maxContains")))

add_schema_interdependence(h, temporary) ==
  Let(AddConditional(h, FirstPass(h, temporary), LastNamed(h, temporary, "if"),
                     LastNamed(h, temporary, "then"), ElseNamed(h, temporary)),
      LAMBDA c :
        IF c.err THEN c
        ELSE AddGroups(h, temporary, c, LastNamed(h, temporary, "unevaluatedItems"),
                       LastNamed(h, temporary, "unevaluatedProperties")))

(***************************************************************************)
(* Collaborators outside json_schema.cc: the regular expression engine and *)
(* the normaliser of the JSON helper.                                      *)
(***************************************************************************)
\* the strings each pattern of the model matches, among the strings of the model
RegexLanguage ==
  [p \in {"^x", "^a", "1$"} |->
     CASE p = "^x" -> {"x", "x1", "x2"}
       [] p = "^a" -> {"a", "ab"}
       [] p = "1$" -> {"x1"}]

ReMatch(pattern, subject) ==
  pattern \in DOMAIN RegexLanguage /\ subject \in RegexLanguage[pattern]

\* the order of the key names, for the normaliser's sorting of object members
KeyOrder == << "a", "ab", "b", "c", "k", "x", "x1", "x2", "y", "z" >>

KeyRank(k) ==
  IF \E i \in DOMAIN KeyOrder : KeyOrder[i] = k
  THEN CHOOSE i \in DOMAIN KeyOrder : KeyOrder[i] = k
  ELSE Len(KeyOrder) + 1

\* the position of the last token of the value that starts at p
RECURSIVE CloseOf(_, _, _)
CloseOf(d, p, depth) ==
  IF p > Len(d) THEN Len(d)
  ELSE IF d[p].tk \in {"{", "["} THEN CloseOf(d, p + 1, depth + 1)
  ELSE IF d[p].tk \in {"}", "]"}
       THEN IF depth = 1 THEN p ELSE CloseOf(d, p + 1, depth - 1)
  ELSE CloseOf(d, p + 1, depth)

ValueEnd(d, p) == IF d[p].tk \in {"{", "["} THEN CloseOf(d, p + 1, 1) ELSE p

\* the start positions of the items of the composite opened at p: the values
\* of an array, the keys of an object
RECURSIVE ItemStarts(_, _)
ItemStarts(d, q) ==
  IF q > Len(d) \/ d[q].tk \in {"}", "]"} THEN << >>
  ELSE LET vstart == IF d[q].tk = "key" THEN q + 1 ELSE q
       IN << q >> \o ItemStarts(d, ValueEnd(d, vstart) + 1)

RECURSIVE SortStarts(_, _)
SortStarts(d, starts) ==
  IF starts = << >> THEN << >>
  ELSE Let(SortStarts(d, Front(starts)), LAMBDA rest :
       LET x == starts[Len(starts)]
           before == SelectSeq(rest, LAMBDA q : KeyRank(d[q].s) <= KeyRank(d[x].s))
           after == SelectSeq(rest, LAMBDA q : KeyRank(d[q].s) > KeyRank(d[x].s))
       IN
          before \o << x >> \o after)

\* json_normalize: numbers in one numeric form, object members sorted by key,
\* arrays in their order, strings as they are
RECURSIVE Normalize(_, _)
RECURSIVE NormalizeItems(_, _)
Normalize(d, p) ==
  CASE d[p].tk = "num" -> << Tok("num", "", d[p].n) >>
    [] d[p].tk = "[" ->
         << d[p] >> \o NormalizeItems(d, ItemStarts(d, p + 1)) \o << Tok("]", "", 0) >>
    [] d[p].tk = "{" ->
         << d[p] >> \o NormalizeItems(d, SortStarts(d, ItemStarts(d, p + 1)))
                    \o << Tok("}", "", 0) >>
    [] OTHER -> << d[p] >>

NormalizeItems(d, starts) ==
  IF starts = << >> THEN << >>
  ELSE (IF d[Head(starts)].tk = "key"
        THEN << d[Head(starts)] >> \o Normalize(d, Head(starts) + 1)
        ELSE Normalize(d, Head(starts)))
       \o NormalizeItems(d, Tail(starts))

\* json_get_normalized_string: skips a composite value on the caller's cursor
json_get_normalized_string(je) ==
  Let(IF json_value_scalar(je) THEN je ELSE json_skip_level(je), LAMBDA j :
  [je |-> j, err |-> j.rc # 0, str |-> Normalize(je.d, je.v)])

(***************************************************************************)
(* Compilation: create_object_and_handle_keyword and the handle_keyword    *)
(* methods.  A result carries the heap, the cursor (the methods move the   *)
(* caller's cursor) and err, the method's return value.                    *)
(***************************************************************************)
Res(h, je, err) == [h |-> h, je |-> je, err |-> err]

\* json_assign_type: the value types a type name stands for, {} for no type name
json_assign_type(name) ==
  CASE name = "number" -> {"number"}
    [] name = "integer" -> {"number"}
    [] name = "string" -> {"string"}
    [] name = "array" -> {"array"}
    [] name = "object" -> {"object"}
    [] name = "boolean" -> {"true", "false"}
    [] name = "null" -> {"null"}
    [] OTHER -> {}

\* Json_schema_type::handle_keyword, the loop over an array of type names
RECURSIVE TypeLoop(_, _, _)
TypeLoop(je, level, types) ==
  Let(json_scan_next(je), LAMBDA j1 :
  IF j1.rc = 0 /\ stack_p(j1) >= level
  THEN Let(json_read_value(j1), LAMBDA j2 :
       IF j2.rc # 0 THEN [je |-> j2, err |-> TRUE, types |-> types]
       ELSE TypeLoop(j2, level, types \cup json_assign_type(ValTok(j2).s)))
  ELSE [je |-> j1, err |-> FALSE, types |-> types])

\* Json_schema_required::handle_keyword, the loop over the array of names
RECURSIVE RequiredLoop(_, _, _)
RequiredLoop(je, level, names) ==
  Let(json_scan_next(je), LAMBDA j1 :
  IF j1.rc = 0 /\ level <= stack_p(j1)
  THEN Let(json_read_value(j1), LAMBDA j2 :
       IF j2.rc # 0 THEN [je |-> j2, err |-> TRUE, names |-> names]
       ELSE RequiredLoop(j2, level, Append(names, ValTok(j2).s)))
  ELSE [je |-> j1, err |-> FALSE, names |-> names])

\* Json_schema_dependent_prop::handle_keyword, the loop over one array of dependents
RECURSIVE DependentsLoop(_, _, _)
DependentsLoop(je, level2, names) ==
  Let(json_scan_next(je), LAMBDA j1 :
  IF j1.rc = 0 /\ level2 <= stack_p(j1)
  THEN Let(json_read_value(j1), LAMBDA j2 :
       IF j2.rc # 0 \/ j2.vt # "string" THEN [je |-> j2, err |-> TRUE, names |-> names]
       ELSE DependentsLoop(j2, level2, Append(names, ValTok(j2).s)))
  ELSE [je |-> j1, err |-> FALSE, names |-> names])

\* Json_schema_dependent_prop::handle_keyword, the loop over the object's members
RECURSIVE DependentLoop(_, _, _, _)
DependentLoop(je, level1, names, deps) ==
  Let(json_scan_next(je), LAMBDA j1 :
  IF j1.rc = 0 /\ level1 <= stack_p(j1)
  THEN IF j1.st = "KEY"
       THEN LET k == KeyAt(j1)
            IN
            Let(json_read_value(json_read_keyname(j1)), LAMBDA j2 :
               IF j2.rc # 0 \/ j2.vt # "array"
               THEN [je |-> j2, err |-> TRUE, names |-> names, deps |-> deps]
               ELSE Let(DependentsLoop(j2, stack_p(j2), << >>), LAMBDA r :
                    IF r.err THEN [je |-> r.je, err |-> TRUE, names |-> names, deps |-> deps]
                    ELSE DependentLoop(r.je, level1, Append(names, k), Append(deps, r.names))))
       ELSE DependentLoop(j1, level1, names, deps)
  ELSE [je |-> j1, err |-> FALSE, names |-> names, deps |-> deps])

RECURSIVE create_object_and_handle_keyword(_, _)
RECURSIVE handle_keyword(_, _, _, _)
RECURSIVE CompileLoop(_, _, _, _)
RECURSIVE SubSchemasLoop(_, _, _, _)
RECURSIVE PropertiesLoop(_, _, _, _)

\* Json_schema_prefix_items::handle_keyword and Json_schema_logic::handle_keyword:
\* every element of the array is compiled from its own byte range
SubSchemasLoop(h, je, level, id) ==
  Let(json_scan_next(je), LAMBDA j1 :
  IF j1.rc = 0 /\ stack_p(j1) >= level
  THEN Let(json_read_value(j1), LAMBDA j2 :
       IF j2.rc # 0 THEN Res(h, j2, TRUE)
       ELSE Let(json_skip_level(j2), LAMBDA j3 :
            IF j3.rc # 0 THEN Res(h, j3, TRUE)
            ELSE LET temp_je == json_scan_start(j3.d, j2.v, j3.p - 1)
                 IN
                 Let(create_object_and_handle_keyword(h, temp_je), LAMBDA r :
                    IF r.err THEN Res(r.h, j3, TRUE)
                    ELSE SubSchemasLoop([r.h EXCEPT ![id].lists = Append(@, r.list)],
                                        j3, level, id))))
  ELSE Res(h, j1, FALSE))

\* Json_schema_properties::handle_keyword and
\* Json_schema_pattern_properties::handle_keyword: one schema for each key
PropertiesLoop(h, je, level, id) ==
  Let(json_scan_next(je), LAMBDA j1 :
  IF j1.rc = 0 /\ level <= stack_p(j1)
  THEN IF j1.st = "KEY"
       THEN LET k == KeyAt(j1)
            IN
            Let(json_read_value(json_read_keyname(j1)), LAMBDA j2 :
               IF j2.rc # 0 THEN Res(h, j2, TRUE)
               ELSE Let(create_object_and_handle_keyword(h, j2), LAMBDA r :
                    IF r.err THEN Res(r.h, r.je, TRUE)
                    ELSE PropertiesLoop([r.h EXCEPT ![id].names = Append(@, k),
                                                    ![id].lists = Append(@, r.list)],
                                        r.je, level, id)))
       ELSE PropertiesLoop(h, j1, level, id)
  ELSE Res(h, j1, FALSE))

\* compiles a sub-schema into the `list` payload of node id
CompileInto(h, je, id) ==
  Let(create_object_and_handle_keyword(h, je), LAMBDA r :
  IF r.err THEN Res(r.h, r.je, TRUE)
  ELSE Res([r.h EXCEPT ![id].list = r.list], r.je, FALSE))

\* the handle_keyword methods of the numeric keywords: the argument is a number
NumberKeyword(h, je, id) ==
  IF je.vt # "number" THEN Res(h, je, TRUE)
  ELSE Res([h EXCEPT ![id].num = ValTok(je).n], je, FALSE)

Json_schema_annotation_handle_keyword(h, je, key) ==
  IF key \in {"title", "description", "$comment", "$schema"}
  THEN Res(h, je, je.vt # "string")
  ELSE IF key \in {"deprecated", "readOnly", "writeOnly"}
  THEN Res(h, je, je.vt \notin {"true", "false"})
  ELSE IF key = "example"
  THEN Let(json_skip_level(je), LAMBDA j :
       IF j.rc # 0 THEN Res(h, j, TRUE) ELSE Res(h, j, je.vt # "array"))
  ELSE IF key = "default" THEN Res(h, je, FALSE)
  ELSE Res(h, je, TRUE)

Json_schema_type_handle_keyword(h, je, id) ==
  IF je.vt = "array"
  THEN Let(TypeLoop(je, stack_p(je), h[id].type), LAMBDA r :
       Res([h EXCEPT ![id].type = r.types], r.je, r.err))
  ELSE IF je.vt = "string"
  THEN Let(json_assign_type(ValTok(je).s), LAMBDA t :
       Res([h EXCEPT ![id].type = @ \cup t], je, t = {}))
  ELSE Res(h, je, TRUE)

Json_schema_items_handle_keyword(h, je, id, key) ==
  IF je.vt = "object" THEN CompileInto(h, je, id)
  ELSE IF je.vt = "array"
  THEN Let(Append(h, NewNode("prefix_items", "items", 1, TRUE)), LAMBDA h1 :
       LET pid == Len(h1)
       IN
       Let(handle_keyword([h1 EXCEPT ![id].validate_like_prefix = pid], pid, je, key), LAMBDA r :
          Res(r.h, r.je, FALSE)))
  ELSE Res(h, je, je.vt \notin {"true", "false"})

Json_schema_unique_items_handle_keyword(h, je, id) ==
  IF je.vt = "true" THEN Res([h EXCEPT ![id].is_unique = TRUE], je, FALSE)
  ELSE IF je.vt = "false" THEN Res([h EXCEPT ![id].is_unique = FALSE], je, FALSE)
  ELSE Res(h, je, TRUE)

Json_schema_required_handle_keyword(h, je, id) ==
  IF je.vt # "array" THEN Res(h, je, TRUE)
  ELSE Let(RequiredLoop(je, stack_p(je), h[id].names), LAMBDA r :
       Res([h EXCEPT ![id].names = r.names], r.je, r.err))

Json_schema_dependent_prop_handle_keyword(h, je, id) ==
  IF je.vt # "object" THEN Res(h, je, TRUE)
  ELSE Let(DependentLoop(je, stack_p(je), h[id].names, h[id].deps), LAMBDA r :
       Res([h EXCEPT ![id].names = r.names, ![id].deps = r.deps], r.je, r.err))

\* String val(value, end - start): `len` tokens of the text from position `from`
Window(d, from, len) ==
  SubSeq(d, from, IF from + len - 1 <= Len(d) THEN from + len - 1 ELSE Len(d))

\* the normalised text Json_schema_const compares: of the argument in
\* handle_keyword, of the instance in validate: the text from `value` to the
\* cursor after the composite was skipped.
ConstText(je) ==
  Let(IF json_value_scalar(je) THEN je ELSE json_skip_level(je), LAMBDA j :
  LET len == IF json_value_scalar(je) THEN 1 ELSE j.p - je.v
  IN
  Let(Window(j.d, j.v, len), LAMBDA val :
  Let(json_read_value(json_scan_start(val, 1, Len(val))), LAMBDA temp_je :
  Let(json_get_normalized_string(temp_je), LAMBDA n :
     IF j.rc # 0 THEN [err |-> TRUE, str |-> << >>]
     ELSE IF j.vt # "string"
     THEN IF temp_je.rc # 0 \/ n.err THEN [err |-> TRUE, str |-> << >>]
          ELSE [err |-> FALSE, str |-> n.str]
     ELSE [err |-> FALSE, str |-> val]))))

Json_schema_const_handle_keyword(h, je, id) ==
  Let(ConstText(je), LAMBDA t :
  Let(IF json_value_scalar(je) THEN je ELSE json_skip_level(je), LAMBDA j :
     IF t.err THEN Res(h, j, TRUE)
     ELSE Res([h EXCEPT ![id].type = {je.vt}, ![id].const_json_value = t.str], j, FALSE)))

\* Json_schema_enum::handle_keyword, the loop over the array of values
RECURSIVE EnumLoop(_, _, _, _)
EnumLoop(je, curr_level, values, scalars) ==
  Let(json_scan_next(je), LAMBDA j1 :
  IF j1.rc = 0 /\ curr_level <= stack_p(j1)
  THEN Let(json_read_value(j1), LAMBDA j2 :
       Let(json_get_normalized_string(j2), LAMBDA n :
          IF j2.rc # 0 \/ n.err
          THEN [je |-> j2, err |-> TRUE, values |-> values, scalars |-> scalars]
          ELSE EnumLoop(n.je, curr_level, values \cup {n.str},
                        IF j2.vt \in {"true", "false", "null"}
                        THEN scalars \cup {j2.vt} ELSE scalars)))
  ELSE [je |-> j1, err |-> FALSE, values |-> values, scalars |-> scalars])

Json_schema_enum_handle_keyword(h, je, id) ==
  IF je.vt # "array" THEN Res(h, je, TRUE)
  ELSE Let(EnumLoop(je, stack_p(je), h[id].enum_values, h[id].enum_scalar), LAMBDA r :
       Res([h EXCEPT ![id].enum_values = r.values, ![id].enum_scalar = r.scalars],
           r.je, r.err))

handle_keyword(h, id, je, key) ==
  LET cls == h[id].cls IN
  CASE cls = "keyword" -> Res(h, je, FALSE)
    [] cls = "annotation" -> Json_schema_annotation_handle_keyword(h, je, key)
    [] cls = "format" -> Res(h, je, FALSE)
    [] cls = "type" -> Json_schema_type_handle_keyword(h, je, id)
    [] cls = "const" -> Json_schema_const_handle_keyword(h, je, id)
    [] cls = "enum" -> Json_schema_enum_handle_keyword(h, je, id)
    [] cls \in {"maximum", "minimum", "ex_maximum", "ex_minimum", "multiple_of",
                "max_len", "min_len", "max_items", "min_items", "max_prop",
                "min_prop"} -> NumberKeyword(h, je, id)
    [] cls \in {"max_contains", "min_contains"} ->
         IF je.vt # "number" THEN Res(h, je, TRUE)
         ELSE Res([h EXCEPT ![id].value = ValTok(je).n], je, FALSE)
    [] cls = "pattern" ->
         IF je.vt # "string" THEN Res(h, je, TRUE)
         ELSE Res([h EXCEPT ![id].names = << ValTok(je).s >>], je, FALSE)
    [] cls \in {"contains", "property_names"} ->
         IF je.vt # "object" THEN Res(h, je, TRUE) ELSE CompileInto(h, je, id)
    [] cls = "items" -> Json_schema_items_handle_keyword(h, je, id, key)
    [] cls = "prefix_items" ->
         IF je.vt # "array" THEN Res(h, je, TRUE)
         ELSE SubSchemasLoop(h, je, stack_p(je), id)
    [] cls = "unique_items" -> Json_schema_unique_items_handle_keyword(h, je, id)
    [] cls = "required" -> Json_schema_required_handle_keyword(h, je, id)
    [] cls = "dependent_prop" -> Json_schema_dependent_prop_handle_keyword(h, je, id)
    [] cls \in {"additional_items", "unevaluated_items", "additional_properties",
                "unevaluated_properties"} -> CompileInto(h, je, id)
    [] cls \in {"properties", "pattern_properties"} ->
         IF je.vt # "object" THEN Res(h, je, TRUE)
         ELSE PropertiesLoop(h, je, stack_p(je), id)
    [] cls \in {"one_of", "any_of", "all_of"} ->
         IF je.vt # "array" THEN Res(h, je, TRUE)
         ELSE SubSchemasLoop(h, je, stack_p(je), id)
    [] cls \in {"not", "if", "then", "else"} -> CompileInto(h, je, id)
    [] OTHER -> Res(h, je, TRUE)

\* my_error(ER_JSON_INVALID_VALUE_FOR_KEYWORD, ...): whether the handle_keyword
\* of the class raises the error for the kind and sign of the argument the
\* cursor stands on
InvalidValueReported(cls, key, je) ==
  CASE cls = "format" -> je.vt # "string"
    [] cls = "annotation" ->
         IF key \in {"title", "description", "$comment", "$schema"}
         THEN je.vt # "string"
         ELSE IF key \in {"deprecated", "readOnly", "writeOnly"}
         THEN je.vt \notin {"true", "false"}
         ELSE key = "example" /\ je.vt # "array"
    [] cls \in {"maximum", "minimum", "ex_maximum", "ex_minimum", "max_contains",
                "min_contains"} -> je.vt # "number"
    [] cls \in {"multiple_of", "max_len", "min_len", "max_items", "min_items",
                "max_prop", "min_prop"} -> je.vt # "number" \/ ValTok(je).n < 0
    [] cls \in {"pattern"} -> je.vt # "string"
    [] cls = "type" -> je.vt \notin {"array", "string"}
    [] cls = "unique_items" -> je.vt \notin {"true", "false"}
    [] cls = "items" -> je.vt \notin {"object", "array", "true", "false"}
    [] cls \in {"enum", "required", "prefix_items", "one_of", "any_of", "all_of"} ->
         je.vt # "array"
    [] cls \in {"contains", "property_names", "properties", "pattern_properties",
                "dependent_prop"} -> je.vt # "object"
    [] OTHER -> FALSE

CompileLoop(h, je, level, temporary_list) ==
  Let(json_scan_next(je), LAMBDA j1 :
  IF j1.rc = 0 /\ stack_p(j1) >= level
  THEN IF j1.st = "KEY"
       THEN LET key == KeyAt(j1)
            IN
            Let(json_read_value(json_read_keyname(j1)), LAMBDA j2 :
               IF j2.rc # 0 THEN [h |-> h, je |-> j2, err |-> TRUE, list |-> << >>]
               ELSE Let(Append(h, create_object(j2, key)), LAMBDA h1 :
                    Let(handle_keyword(h1, Len(h1), j2, key), LAMBDA r :
                       IF r.err THEN [h |-> r.h, je |-> r.je, err |-> TRUE, list |-> << >>]
                       ELSE CompileLoop(r.h, r.je, level, Append(temporary_list, Len(h1))))))
       ELSE CompileLoop(h, j1, level, temporary_list)
  ELSE Let(add_schema_interdependence(h, temporary_list), LAMBDA a :
       [h |-> a.h, je |-> j1, err |-> a.err, list |-> a.list]))

create_object_and_handle_keyword(h, je) == CompileLoop(h, je, stack_p(je), << >>)

(***************************************************************************)
(* Validation.  A result carries the heap (validate methods write to the   *)
(* nodes), fail (the method's return value) and crash (the call            *)
(* dereferenced a null reference).                                         *)
(***************************************************************************)
VR(h, fail) == [h |-> h, fail |-> fail, crash |-> FALSE]
Crash(h) == [h |-> h, fail |-> TRUE, crash |-> TRUE]

\* the loop of Json_schema_max_items::validate / Json_schema_min_items::validate
RECURSIVE CountItems(_, _, _)
CountItems(je, level, count) ==
  Let(json_scan_next(je), LAMBDA j1 :
  IF j1.rc = 0 /\ level <= stack_p(j1)
  THEN Let(json_read_value(j1), LAMBDA j2 :
       IF j2.rc # 0 THEN [err |-> TRUE, count |-> count]
       ELSE Let(IF json_value_scalar(j2) THEN j2 ELSE json_skip_level(j2), LAMBDA j3 :
            IF j3.rc # 0 THEN [err |-> TRUE, count |-> count + 1]
            ELSE CountItems(j3, level, count + 1)))
  ELSE [err |-> FALSE, count |-> count])

\* the loop of Json_schema_max_prop::validate / Json_schema_min_prop::validate;
\* its depth test reads the caller's cursor, which does not move
RECURSIVE CountProperties(_, _, _, _)
CountProperties(je, curr_je, curr_level, count) ==
  Let(json_scan_next(curr_je), LAMBDA j1 :
  IF j1.rc = 0 /\ stack_p(je) >= curr_level
  THEN IF j1.st = "KEY"
       THEN Let(json_read_value(json_read_keyname(j1)), LAMBDA j2 :
            IF j2.rc # 0 THEN [err |-> TRUE, count |-> count + 1]
            ELSE Let(IF json_value_scalar(j2) THEN j2 ELSE json_skip_level(j2), LAMBDA j3 :
                 IF j3.rc # 0 THEN [err |-> TRUE, count |-> count + 1]
                 ELSE CountProperties(je, j3, curr_level, count + 1)))
       ELSE CountProperties(je, j1, curr_level, count)
  ELSE [err |-> FALSE, count |-> count])

\* the key-collecting loop of Json_schema_required::validate and
\* Json_schema_dependent_prop::validate
RECURSIVE CollectKeys(_, _, _)
CollectKeys(je, curr_level, keys) ==
  Let(json_scan_next(je), LAMBDA j1 :
  IF j1.rc = 0 /\ stack_p(j1) >= curr_level
  THEN IF j1.st = "KEY"
       THEN CollectKeys(json_read_keyname(j1), curr_level, keys \cup {KeyAt(j1)})
       ELSE CollectKeys(j1, curr_level, keys)
  ELSE keys)

\* the loop of Json_schema_unique_items::validate; TRUE when it reaches `end` early
RECURSIVE UniqueLoop(_, _, _)
UniqueLoop(je, level, unique_items) ==
  Let(json_scan_next(je), LAMBDA j1 :
  IF j1.rc = 0 /\ level <= stack_p(j1)
  THEN Let(json_read_value(j1), LAMBDA j2 :
       IF j2.rc # 0 THEN TRUE
       ELSE Let(json_get_normalized_string(j2), LAMBDA n :
            LET has_none == {}
            IN
               IF n.err THEN TRUE
               ELSE IF j2.vt \in {"true", "false", "null"}
               THEN IF j2.vt \in has_none THEN TRUE
                    ELSE UniqueLoop(n.je, level, unique_items)
               ELSE IF n.str \in unique_items THEN TRUE
                    ELSE UniqueLoop(n.je, level, unique_items \cup {n.str})))
  ELSE FALSE)

Json_schema_type_validate(node, je) == ~(je.vt \in node.type)

\* Json_schema_const::validate comparing the kind tag only
Json_schema_const_validate_kind_only(node, je) == node.type # {je.vt}

Json_schema_const_validate(node, je) ==
  IF node.type # {je.vt} THEN TRUE
  ELSE IF je.vt \in {"uninit", "object", "array", "string", "number"}
  THEN Let(ConstText(je), LAMBDA t :
                                 t.err \/ t.str # node.const_json_value)
  ELSE FALSE

Json_schema_enum_validate(node, je) ==
  IF je.vt \in {"true", "false", "null"} THEN je.vt \notin node.enum_scalar
  ELSE Let(json_get_normalized_string(je), LAMBDA n :
       n.err \/ n.str \notin node.enum_values)

\* Json_schema_maximum::validate comparing with < in place of <=
Json_schema_maximum_validate_strict(node, je) ==
  IF je.vt # "number" THEN FALSE ELSE ~(ValTok(je).n < node.num)

Json_schema_maximum_validate(node, je) ==
  IF je.vt # "number" THEN FALSE ELSE ~(ValTok(je).n <= node.num)

Json_schema_minimum_validate(node, je) ==
  IF je.vt # "number" THEN FALSE ELSE ~(ValTok(je).n >= node.num)

Json_schema_ex_minimum_validate(node, je) ==
  IF je.vt # "number" THEN FALSE ELSE ~(ValTok(je).n > node.num)

Json_schema_ex_maximum_validate(node, je) ==
  IF je.vt # "number" THEN FALSE ELSE ~(ValTok(je).n < node.num)

\* val / multiple_of has no fractional part; a zero divisor gives no finite quotient
Json_schema_multiple_of_validate(node, je) ==
  IF je.vt # "number" THEN FALSE
  ELSE IF node.num = 0 THEN TRUE
  ELSE ~(ValTok(je).n % node.num = 0)

Json_schema_max_len_validate(node, je) ==
  IF je.vt # "string" THEN FALSE ELSE ~(Len(ValTok(je).s) <= node.num)

Json_schema_min_len_validate(node, je) ==
  IF je.vt # "string" THEN FALSE ELSE ~(Len(ValTok(je).s) >= node.num)

Json_schema_pattern_validate(node, je) ==
  IF je.vt # "string" THEN FALSE ELSE ~ReMatch(node.names[1], ValTok(je).s)

Json_schema_max_items_validate(node, je) ==
  IF je.vt # "array" THEN FALSE
  ELSE Let(CountItems(je, stack_p(je), 0), LAMBDA r :
                                                  r.err \/ r.count > node.num)

Json_schema_min_items_validate(node, je) ==
  IF je.vt # "array" THEN FALSE
  ELSE Let(CountItems(je, stack_p(je), 0), LAMBDA r :
                                                  r.err \/ r.count < node.num)

Json_schema_unique_items_validate(node, je) ==
  IF je.vt # "array" THEN FALSE ELSE UniqueLoop(je, stack_p(je), {})

Json_schema_max_prop_validate(node, je) ==
  IF je.vt # "object" THEN FALSE
  ELSE Let(CountProperties(je, je, stack_p(je), 0), LAMBDA r :
                                                           r.err \/ r.count > node.num)

Json_schema_min_prop_validate(node, je) ==
  IF je.vt # "object" THEN FALSE
  ELSE Let(CountProperties(je, je, stack_p(je), 0), LAMBDA r :
                                                           r.err \/ r.count < node.num)

\* Json_schema_required::validate without the test of the value type
Json_schema_required_validate_any_kind(node, je) ==
  LET required == CollectKeys(je, stack_p(je), {}) IN
  \E i \in DOMAIN node.names : node.names[i] \notin required

Json_schema_required_validate(node, je) ==
  IF je.vt # "object" THEN FALSE
  ELSE LET required == CollectKeys(je, stack_p(je), {}) IN
       \E i \in DOMAIN node.names : node.names[i] \notin required

Json_schema_dependent_prop_validate(node, je) ==
  IF je.vt # "object" THEN FALSE
  ELSE Let(CollectKeys(je, stack_p(je), {}), LAMBDA properties :
       \E i \in DOMAIN node.names :
          /\ node.names[i] \in properties
          /\ \E j \in DOMAIN node.deps[i] : node.deps[i][j] \notin properties)

(***************************************************************************)
(* The state: one compiled schema and the validations run on it.           *)
(***************************************************************************)
VARIABLES
  schema,     \* the schema text given to the compiler: a position in Schemas, 0 before
  compiled,   \* "no", "ok" (the Keyword List was built) or "error"
  heap,       \* the nodes of the compiled schema
  root,       \* the Keyword List of the schema's top-level object
  heap0,      \* the nodes as they were when compilation finished
  hpre,       \* the nodes as they were when the last validation started
  inst,       \* the instance of the last validation: a position in Instances
  verdict,    \* "none", "pass", "fail" or "crash"
  failed_at,  \* keyword_name of the node that failed the last validation
  calls,      \* number of validations run
  ub,         \* what the next call through a null reference does
  threads,    \* the concurrent validations, for the shared-schema specification
  second      \* the result of compiling the same schema text a second time

vars == << schema, compiled, heap, root, heap0, hpre, inst, verdict, failed_at,
           calls, ub, threads, second >>

\* a call through a null reference is undefined: the process dies, or the call
\* comes back with either return value
UBOutcomes == {"crash", "true", "false"}

RECURSIVE validate(_, _, _)
RECURSIVE validate_as_alternate(_, _, _, _)
RECURSIVE fall_back_on_alternate_schema(_, _, _, _)
RECURSIVE ValidateAll(_, _, _)
RECURSIVE SingleIndexLoop(_, _, _, _)
RECURSIVE ItemsLoop(_, _, _, _)
RECURSIVE PrefixLoop(_, _, _, _, _)
RECURSIVE ContainsLoop(_, _, _, _)
RECURSIVE UnevaluatedPropertiesLoop(_, _, _, _)
RECURSIVE PropertiesValidateLoop(_, _, _, _)
RECURSIVE PatternInner(_, _, _, _, _, _)
RECURSIVE PatternLoop(_, _, _, _, _)
RECURSIVE PropertyNamesLoop(_, _, _, _)
RECURSIVE LogicInner(_, _, _, _, _)
RECURSIVE LogicOuter(_, _, _, _, _)
RECURSIVE NotLoop(_, _, _, _, _)

\* `while ((k= it++)) if (k->validate(je)) return true;` over one keyword list
ValidateAll(h, list, je) ==
  IF list = << >> THEN VR(h, FALSE)
  ELSE Let(validate(h, Head(list), je), LAMBDA r :
       IF r.fail THEN r ELSE ValidateAll(r.h, Tail(list), je))

\* the key handed on when the caller passes no key (k_start = k_end = NULL)
NoKey == ""

\* fall_back_on_alternate_schema taking a forbidding alternate for an accepting one
fall_back_on_alternate_schema_permissive(h, id, je, key) ==
  LET alternate_schema == h[id].alternate_schema IN
  IF alternate_schema # NULL /\ h[alternate_schema].allowed
  THEN validate_as_alternate(h, alternate_schema, je, key)
  ELSE VR(h, FALSE)

fall_back_on_alternate_schema(h, id, je, key) ==
  LET alternate_schema == h[id].alternate_schema IN
  IF alternate_schema # NULL
  THEN IF h[alternate_schema].allowed
       THEN validate_as_alternate(h, alternate_schema, je, key)
       ELSE VR(h, TRUE)
  ELSE VR(h, FALSE)

\* the keyword loop of Json_schema_items::validate_single_index
SingleIndexLoop(h, id, curr_je, list) ==
  IF list = << >> THEN VR(h, FALSE)
  ELSE Let(validate(h, Head(list), curr_je), LAMBDA r :
       IF r.crash THEN r
       ELSE IF r.fail
       THEN IF r.h[id].alternate_schema # NULL
            THEN Let(fall_back_on_alternate_schema(r.h, id, curr_je, NoKey), LAMBDA f :
                 IF f.fail THEN f ELSE SingleIndexLoop(f.h, id, curr_je, Tail(list)))
            ELSE VR(r.h, TRUE)
       ELSE SingleIndexLoop(r.h, id, curr_je, Tail(list)))

\* Json_schema_items::validate_single_index; has_schema is FALSE for a null
\* curr_schema.  The result also carries the caller's cursor.
validate_single_index(h, id, curr_je, has_schema, curr_schema) ==
  Let(
           IF ~has_schema
           THEN fall_back_on_alternate_schema(h, id, curr_je, NoKey)
           ELSE SingleIndexLoop(h, id, curr_je, curr_schema),
      LAMBDA r :
  Let(IF json_value_scalar(curr_je) THEN curr_je ELSE json_skip_level(curr_je), LAMBDA j :
     IF r.fail THEN [h |-> r.h, fail |-> TRUE, crash |-> r.crash, je |-> curr_je]
     ELSE [h |-> r.h, fail |-> j.rc # 0, crash |-> FALSE, je |-> j]))

Json_schema_items_validate_as_alternate(h, id, je, key) ==
  LET node == h[id] IN
  IF node.validate_like_prefix # NULL
  THEN LET prefix_items == h[node.validate_like_prefix].lists IN
       IF node.index > Len(prefix_items) THEN VR(h, TRUE)
       ELSE Let(
                     validate_single_index(h, id, je, node.index < Len(prefix_items),
                       IF node.index < Len(prefix_items)
                       THEN prefix_items[node.index + 1] ELSE << >>),
                LAMBDA r :
               [h |-> r.h, fail |-> r.fail, crash |-> r.crash])
  ELSE IF node.list # << >>
  THEN Let(validate_single_index(h, id, je, TRUE, node.list), LAMBDA r :
       [h |-> r.h, fail |-> r.fail, crash |-> r.crash])
  ELSE VR(h, ~node.allowed)

ItemsLoop(h, id, curr_je, level) ==
  Let(json_scan_next(curr_je), LAMBDA j1 :
  IF j1.rc = 0 /\ level <= stack_p(j1)
  THEN Let(json_read_value(j1), LAMBDA j2 :
       IF j2.rc # 0 THEN VR(h, TRUE)
       ELSE Let(validate_single_index(h, id, j2, TRUE, h[id].list), LAMBDA r :
            IF r.fail THEN [h |-> r.h, fail |-> TRUE, crash |-> r.crash]
            ELSE ItemsLoop(r.h, id, r.je, level)))
  ELSE VR(h, FALSE))

Json_schema_items_validate(h, id, je) ==
  LET node == h[id] IN
  IF je.vt # "array" THEN VR(h, FALSE)
  ELSE IF node.validate_like_prefix # NULL
  THEN validate([h EXCEPT ![node.validate_like_prefix].alternate_schema =
                            node.alternate_schema],
                node.validate_like_prefix, je)
  ELSE IF node.list # << >> THEN ItemsLoop(h, id, je, stack_p(je))
  ELSE VR(h, ~node.allowed)

\* alternate_schema->index++
BumpIndex(h, id) ==
  IF h[id].alternate_schema # NULL
  THEN [h EXCEPT ![h[id].alternate_schema].index = @ + 1]
  ELSE h

\* one iteration of the loop of Json_schema_prefix_items::validate, the cursor
\* standing on the element read; k prefix schemas have been used
PrefixIteration(h, id, j2, k) ==
  LET prefix_items == h[id].lists
  IN
  Let(IF json_value_scalar(j2) THEN j2 ELSE json_skip_level(j2), LAMBDA skipped :
     IF k >= Len(prefix_items)
     THEN Let(fall_back_on_alternate_schema(h, id, j2, NoKey), LAMBDA f :
          IF f.fail THEN [h |-> f.h, fail |-> TRUE, crash |-> f.crash, je |-> j2, k |-> k]
          ELSE [h |-> BumpIndex(f.h, id), fail |-> skipped.rc # 0, crash |-> FALSE,
                je |-> skipped, k |-> k])
     ELSE Let(ValidateAll(BumpIndex(h, id), prefix_items[k + 1], j2), LAMBDA r :
          IF r.fail THEN [h |-> r.h, fail |-> TRUE, crash |-> r.crash, je |-> j2, k |-> k + 1]
          ELSE [h |-> r.h, fail |-> skipped.rc # 0, crash |-> FALSE,
                je |-> skipped, k |-> k + 1]))

PrefixLoop(h, id, curr_je, level, k) ==
  Let(json_scan_next(curr_je), LAMBDA j1 :
  IF curr_je.p <= curr_je.lim /\ j1.rc = 0 /\ stack_p(j1) >= level
  THEN Let(json_read_value(j1), LAMBDA j2 :
       IF j2.rc # 0 THEN VR(h, TRUE)
       ELSE Let(PrefixIteration(h, id, j2, k), LAMBDA r :
            IF r.fail THEN [h |-> r.h, fail |-> TRUE, crash |-> r.crash]
            ELSE PrefixLoop(r.h, id, r.je, level, r.k)))
  ELSE VR(h, FALSE))

Json_schema_prefix_items_validate(h, id, je) ==
  IF je.vt # "array" THEN VR(h, FALSE)
  ELSE PrefixLoop(h, id, je, stack_p(je), 0)

\* the loop of Json_schema_contains::validate over the keywords of `contains`,
\* each validated on the cursor the method was given
ContainsLoop(h, list, curr_je, contains_count) ==
  IF list = << >> THEN [h |-> h, count |-> contains_count, crash |-> FALSE]
  ELSE Let(validate(h, Head(list), curr_je), LAMBDA r :
       IF r.crash THEN [h |-> r.h, count |-> contains_count, crash |-> TRUE]
       ELSE ContainsLoop(r.h, Tail(list), curr_je,
                         IF ~r.fail THEN contains_count + 1 ELSE contains_count))

Json_schema_contains_validate(h, id, je) ==
  LET node == h[id] IN
  IF je.vt # "array" THEN VR(h, FALSE)
  ELSE Let(ContainsLoop(h, node.list, je, 0), LAMBDA r :
       IF r.crash THEN Crash(r.h)
       ELSE IF /\ (IF node.max_contains # NULL
                   THEN r.count <= r.h[node.max_contains].value ELSE r.count > 0)
               /\ (IF node.min_contains # NULL
                   THEN r.count >= r.h[node.min_contains].value ELSE r.count > 0)
            THEN VR(r.h, FALSE)
            ELSE VR(r.h, TRUE))

PropertyNamesLoop(h, id, curr_je, level) ==
  Let(json_scan_next(curr_je), LAMBDA j1 :
  IF j1.rc = 0 /\ level <= stack_p(j1)
  THEN IF j1.st = "KEY"
       THEN Let(json_read_value(json_read_keyname(j1)), LAMBDA j2 :
            IF j2.rc # 0 THEN VR(h, TRUE)
            ELSE Let(ValidateAll(h, h[id].list, j2), LAMBDA r :
                 IF r.fail THEN r ELSE PropertyNamesLoop(r.h, id, j2, level)))
       ELSE PropertyNamesLoop(h, id, j1, level)
  ELSE VR(h, FALSE))

Json_schema_property_names_validate(h, id, je) ==
  IF je.vt # "object" THEN VR(h, FALSE)
  ELSE PropertyNamesLoop(h, id, je, stack_p(je))

Json_schema_additional_and_unevaluated_validate(h, id, je) ==
  ValidateAll(h, h[id].list, je)

UnevaluatedPropertiesLoop(h, id, curr_je, level) ==
  Let(json_scan_next(curr_je), LAMBDA j1 :
  IF j1.rc = 0 /\ level <= stack_p(j1)
  THEN IF j1.st = "KEY"
       THEN Let(json_read_value(json_read_keyname(j1)), LAMBDA j2 :
            IF j2.rc # 0 THEN VR(h, TRUE)
            ELSE Let(ValidateAll(h, h[id].list, j2), LAMBDA r :
                 IF r.fail THEN r ELSE UnevaluatedPropertiesLoop(r.h, id, j2, level)))
       ELSE UnevaluatedPropertiesLoop(h, id, j1, level)
  ELSE VR(h, FALSE))

Json_schema_unevaluated_properties_validate(h, id, je) ==
  UnevaluatedPropertiesLoop(h, id, je, stack_p(je))

\* my_hash_search(&properties, key): the position of the key's schema, 0 when
\* the key is not a name of `properties`
PropertyOf(node, key) ==
  IF \E i \in DOMAIN node.names : node.names[i] = key
  THEN CHOOSE i \in DOMAIN node.names :
         /\ node.names[i] = key
         /\ \A j \in DOMAIN node.names : node.names[j] = key => i <= j
  ELSE 0

Json_schema_properties_validate_as_alternate(h, id, je, key) ==
  Let(PropertyOf(h[id], key), LAMBDA curr_property :
  IF curr_property # 0
  THEN Let(ValidateAll(h, h[id].lists[curr_property], je), LAMBDA r :
       LET j == IF json_value_scalar(je) THEN je ELSE json_skip_level(je)
       IN
          IF r.fail THEN r ELSE VR(r.h, j.rc # 0))
  ELSE VR(h, FALSE))

PropertiesValidateLoop(h, id, curr_je, level) ==
  Let(json_scan_next(curr_je), LAMBDA j1 :
  IF j1.rc = 0 /\ level <= stack_p(j1)
  THEN IF j1.st = "KEY"
       THEN LET key == KeyAt(j1)
            IN
            Let(json_read_value(json_read_keyname(j1)), LAMBDA j2 :
            Let(PropertyOf(h[id], key), LAMBDA curr_property :
            Let(IF json_value_scalar(j2) THEN j2 ELSE json_skip_level(j2), LAMBDA j3 :
               IF j2.rc # 0 THEN VR(h, TRUE)
               ELSE Let(
                             IF curr_property # 0
                             THEN ValidateAll(h, h[id].lists[curr_property], j2)
                             ELSE fall_back_on_alternate_schema(h, id, j2, key),
                        LAMBDA r :
                       IF r.fail THEN r
                       ELSE IF j3.rc # 0 THEN VR(r.h, TRUE)
                       ELSE PropertiesValidateLoop(r.h, id, j3, level)))))
       ELSE PropertiesValidateLoop(h, id, j1, level)
  ELSE VR(h, FALSE))

Json_schema_properties_validate(h, id, je) ==
  IF je.vt # "object" THEN VR(h, FALSE)
  ELSE PropertiesValidateLoop(h, id, je, stack_p(je))

\* the first pattern of the node, from position i on, that matches the key; 0 for none
FirstMatch(node, key, i) ==
  Let({n \in DOMAIN node.names : n >= i /\ ReMatch(node.names[n], key)}, LAMBDA m :
  IF m = {} THEN 0 ELSE CHOOSE n \in m : \A n2 \in m : n <= n2)

\* Json_schema_pattern_properties::validate_as_alternate without the fall-back
\* for a key that no pattern matches
Json_schema_pattern_properties_validate_as_alternate_no_fall_back(h, id, curr_je, key) ==
  Let(FirstMatch(h[id], key, 1), LAMBDA n :
  IF n # 0
  THEN Let(ValidateAll(h, h[id].lists[n], curr_je), LAMBDA r :
       IF r.fail THEN r ELSE VR(r.h, FALSE))
  ELSE VR(h, FALSE))

Json_schema_pattern_properties_validate_as_alternate(h, id, curr_je, key) ==
  Let(FirstMatch(h[id], key, 1), LAMBDA n :
  IF n # 0
  THEN \* the schema of the first matching pattern, then `break`
       Let(ValidateAll(h, h[id].lists[n], curr_je), LAMBDA r :
       IF r.fail THEN r ELSE VR(r.h, FALSE))
  ELSE fall_back_on_alternate_schema(h, id, curr_je, NoKey))

\* the loop over the patterns in Json_schema_pattern_properties::validate
PatternInner(h, id, curr_je, key, i, match_found) ==
  IF i > Len(h[id].names)
  THEN [h |-> h, fail |-> FALSE, crash |-> FALSE, match_found |-> match_found]
  ELSE IF ReMatch(h[id].names[i], key)
  THEN Let(ValidateAll(h, h[id].lists[i], curr_je), LAMBDA r :
       IF r.fail
       THEN [h |-> r.h, fail |-> TRUE, crash |-> r.crash, match_found |-> TRUE]
       ELSE PatternInner(r.h, id, curr_je, key, i + 1, TRUE))
  ELSE PatternInner(h, id, curr_je, key, i + 1, match_found)

\* match_found is declared outside the loop over the keys
PatternLoop(h, id, curr_je, level, match_found) ==
  Let(json_scan_next(curr_je), LAMBDA j1 :
  IF j1.rc = 0 /\ level <= stack_p(j1)
  THEN IF j1.st = "KEY"
       THEN LET key == KeyAt(j1)
            IN
            Let(json_read_value(json_read_keyname(j1)), LAMBDA j2 :
               IF j2.rc # 0 THEN VR(h, TRUE)
               ELSE Let(PatternInner(h, id, j2, key, 1, match_found), LAMBDA r :
                    IF r.fail THEN [h |-> r.h, fail |-> TRUE, crash |-> r.crash]
                    ELSE IF ~r.match_found
                    THEN Let(validate_as_alternate(r.h, id, j2, key), LAMBDA a :
                         IF a.fail THEN a
                         ELSE PatternLoop(a.h, id, j2, level, r.match_found))
                    ELSE PatternLoop(r.h, id, j2, level, r.match_found)))
       ELSE PatternLoop(h, id, j1, level, match_found)
  ELSE VR(h, FALSE))

Json_schema_pattern_properties_validate(h, id, je) ==
  IF je.vt # "object" THEN VR(h, FALSE)
  ELSE PatternLoop(h, id, je, stack_p(je), FALSE)

\* the first lines of Json_schema_logic::validate and Json_schema_not::validate:
\* the members read are Json_schema_logic's own unevaluated_items and
\* unevaluated_properties
SetLogicAlternate(h, id, je) ==
  IF je.vt = "array"
  THEN [h EXCEPT ![id].alternate_schema = h[id].logic_unevaluated_items]
  ELSE IF je.vt = "object"
  THEN [h EXCEPT ![id].alternate_schema = h[id].logic_unevaluated_properties]
  ELSE h

\* one keyword of a sub-schema in the inner loop of Json_schema_logic::validate
LogicKeyword(h, id, curr_keyword, curr_je, has_alternate) ==
  LET lacks == h[curr_keyword].alternate_schema = NULL
      has == has_alternate \/ lacks
      h1 ==
            IF lacks
            THEN [h EXCEPT ![curr_keyword].alternate_schema = h[id].alternate_schema]
            ELSE h
  IN
  Let(validate(h1, curr_keyword, curr_je), LAMBDA r :
     IF r.fail
     THEN [h |-> r.h, fail |-> TRUE, crash |-> r.crash, has_alternate |-> has]
     ELSE [h |-> IF has THEN [r.h EXCEPT ![curr_keyword].alternate_schema = NULL]
                 ELSE r.h,
           fail |-> FALSE, crash |-> FALSE, has_alternate |-> has])

\* the inner loop: validated is FALSE when a keyword failed
LogicInner(h, id, curr_je, curr_schema, has_alternate) ==
  IF curr_schema = << >> THEN [h |-> h, validated |-> TRUE, crash |-> FALSE]
  ELSE Let(LogicKeyword(h, id, Head(curr_schema), curr_je, has_alternate), LAMBDA r :
       IF r.fail THEN [h |-> r.h, validated |-> FALSE, crash |-> r.crash]
       ELSE LogicInner(r.h, id, curr_je, Tail(curr_schema), r.has_alternate))

\* one sub-schema of the outer loop: the heap and the count after it
LogicSubSchema(h, id, curr_je, i, count_validations) ==
  Let(LogicInner(h, id, curr_je, h[id].lists[i], FALSE), LAMBDA r :
  IF r.crash THEN [h |-> r.h, count |-> count_validations, crash |-> TRUE]
  ELSE IF r.validated
  THEN [h |-> r.h, count |-> count_validations + 1, crash |-> FALSE]
  ELSE IF r.h[id].alternate_schema # NULL
  THEN Let(fall_back_on_alternate_schema(r.h, id, curr_je, NoKey), LAMBDA f :
       [h |-> f.h, count |-> IF ~f.fail THEN count_validations + 1 ELSE count_validations,
        crash |-> f.crash])
  ELSE [h |-> r.h, count |-> count_validations, crash |-> FALSE])

LogicOuter(h, id, curr_je, i, count_validations) ==
  IF i > Len(h[id].lists) THEN [h |-> h, count |-> count_validations, crash |-> FALSE]
  ELSE Let(LogicSubSchema(h, id, curr_je, i, count_validations), LAMBDA r :
       IF r.crash THEN r ELSE LogicOuter(r.h, id, curr_je, i + 1, r.count))

\* validate_count of Json_schema_logic and its subclasses
validate_count(cls, count, total) ==
  CASE cls = "not" -> count # 0
    [] cls = "one_of" -> ~(count = 1)
    [] cls = "any_of" -> count = 0
    [] cls = "all_of" -> count # total
    [] OTHER -> FALSE

Json_schema_logic_validate(h, id, je) ==
  Let(LogicOuter(SetLogicAlternate(h, id, je), id, je, 1, 0), LAMBDA r :
  IF r.crash THEN Crash(r.h)
  ELSE VR(r.h, validate_count(h[id].cls, r.count, Len(h[id].lists))))

NotLoop(h, id, je, list, count_validations) ==
  IF list = << >> THEN [h |-> h, count |-> count_validations, crash |-> FALSE]
  ELSE LET curr_keyword == Head(list)
           has_alternate == h[curr_keyword].alternate_schema # NULL
           h1 ==
                 IF has_alternate
                 THEN [h EXCEPT ![curr_keyword].alternate_schema = h[id].alternate_schema]
                 ELSE h
       IN
       Let(validate(h1, curr_keyword, je), LAMBDA r :
       LET h2 ==
                 IF has_alternate
                 THEN [r.h EXCEPT ![curr_keyword].alternate_schema = NULL]
                 ELSE r.h
       IN
          IF r.crash THEN [h |-> r.h, count |-> count_validations, crash |-> TRUE]
          ELSE NotLoop(h2, id, je, Tail(list),
                       IF ~r.fail THEN count_validations + 1 ELSE count_validations))

Json_schema_not_validate(h, id, je) ==
  Let(NotLoop(SetLogicAlternate(h, id, je), id, je, h[id].list, 0), LAMBDA r :
  IF r.crash THEN Crash(r.h)
  ELSE VR(r.h, validate_count("not", r.count, Len(h[id].list))))

\* a virtual call through the reference c: through NULL the call is undefined
CallValidate(h, c, je) ==
  IF c = NULL
  THEN IF ub = "crash" THEN Crash(h) ELSE VR(h, ub = "true")
  ELSE validate(h, c, je)

Json_schema_conditional_validate(h, id, je) ==
  LET node == h[id]
  IN
  Let(CallValidate(h, node.if_cond, je), LAMBDA i :
     IF i.crash THEN i
     ELSE IF ~i.fail
     THEN IF node.then_cond # NULL THEN validate(i.h, node.then_cond, je)
          ELSE VR(i.h, TRUE)
     ELSE IF node.else_cond # NULL THEN validate(i.h, node.else_cond, je)
          ELSE VR(i.h, TRUE))

validate(h, id, je) ==
  LET node == h[id]
      cls == node.cls
  IN CASE cls = "type" -> VR(h, Json_schema_type_validate(node, je))
       [] cls = "const" -> VR(h, Json_schema_const_validate(node, je))
       [] cls = "enum" -> VR(h, Json_schema_enum_validate(node, je))
       [] cls = "maximum" -> VR(h, Json_schema_maximum_validate(node, je))
       [] cls = "minimum" -> VR(h, Json_schema_minimum_validate(node, je))
       [] cls = "ex_maximum" -> VR(h, Json_schema_ex_maximum_validate(node, je))
       [] cls = "ex_minimum" -> VR(h, Json_schema_ex_minimum_validate(node, je))
       [] cls = "multiple_of" -> VR(h, Json_schema_multiple_of_validate(node, je))
       [] cls = "max_len" -> VR(h, Json_schema_max_len_validate(node, je))
       [] cls = "min_len" -> VR(h, Json_schema_min_len_validate(node, je))
       [] cls = "pattern" -> VR(h, Json_schema_pattern_validate(node, je))
       [] cls = "max_items" -> VR(h, Json_schema_max_items_validate(node, je))
       [] cls = "min_items" -> VR(h, Json_schema_min_items_validate(node, je))
       [] cls = "unique_items" -> VR(h, Json_schema_unique_items_validate(node, je))
       [] cls = "max_prop" -> VR(h, Json_schema_max_prop_validate(node, je))
       [] cls = "min_prop" -> VR(h, Json_schema_min_prop_validate(node, je))
       [] cls = "required" -> VR(h, Json_schema_required_validate(node, je))
       [] cls = "dependent_prop" -> VR(h, Json_schema_dependent_prop_validate(node, je))
       [] cls = "contains" -> Json_schema_contains_validate(h, id, je)
       [] cls = "items" -> Json_schema_items_validate(h, id, je)
       [] cls = "prefix_items" -> Json_schema_prefix_items_validate(h, id, je)
       [] cls = "property_names" -> Json_schema_property_names_validate(h, id, je)
       [] cls \in {"additional_items", "unevaluated_items", "additional_properties"} ->
            Json_schema_additional_and_unevaluated_validate(h, id, je)
       [] cls = "unevaluated_properties" ->
            Json_schema_unevaluated_properties_validate(h, id, je)
       [] cls = "properties" -> Json_schema_properties_validate(h, id, je)
       [] cls = "pattern_properties" ->
            Json_schema_pattern_properties_validate(h, id, je)
       [] cls \in {"one_of", "any_of", "all_of"} -> Json_schema_logic_validate(h, id, je)
       [] cls = "not" -> Json_schema_not_validate(h, id, je)
       [] cls \in {"if", "then", "else"} -> Json_schema_conditional_validate(h, id, je)
       \* Json_schema_keyword::validate, and the annotation and format classes
       [] OTHER -> VR(h, FALSE)

validate_as_alternate(h, id, je, key) ==
  LET cls == h[id].cls IN
  CASE cls \in {"additional_items", "unevaluated_items", "additional_properties",
                "unevaluated_properties"} -> validate(h, id, je)
    [] cls = "items" -> Json_schema_items_validate_as_alternate(h, id, je, key)
    [] cls = "properties" -> Json_schema_properties_validate_as_alternate(h, id, je, key)
    [] cls = "pattern_properties" ->
         Json_schema_pattern_properties_validate_as_alternate(h, id, je, key)
    [] OTHER -> VR(h, FALSE)

(***************************************************************************)
(* The caller (JSON_SCHEMA_VALID): compile the schema text once, then      *)
(* validate instances against the Keyword List, keyword by keyword, the    *)
(* first failure deciding.                                                 *)
(***************************************************************************)
CompileSchema(doc) ==
  create_object_and_handle_keyword(<< >>, json_scan_start(doc, 1, Len(doc)))

RECURSIVE RootLoop(_, _, _)
RootLoop(h, list, je) ==
  IF list = << >> THEN [h |-> h, verdict |-> "pass", failed_at |-> ""]
  ELSE Let(validate(h, Head(list), je), LAMBDA r :
       IF r.crash THEN [h |-> r.h, verdict |-> "crash", failed_at |-> h[Head(list)].keyword_name]
       ELSE IF r.fail
       THEN [h |-> r.h, verdict |-> "fail", failed_at |-> h[Head(list)].keyword_name]
       ELSE RootLoop(r.h, Tail(list), je))

\* the cursor the validators are given: the instance's value has been read
InstanceCursor(doc) == json_read_value(json_scan_start(doc, 1, Len(doc)))

ValidateSchema(h, list, doc) == RootLoop(h, list, InstanceCursor(doc))

(***************************************************************************)
(* The schemas and the instances of the model.                             *)
(***************************************************************************)
EmptySchema == JObj(<< >>)
TypeIs(t) == JObj(<< Member("type", JStr(t)) >>)
Keyword1(k, arg) == JObj(<< Member(k, arg) >>)
Keyword2(k1, arg1, k2, arg2) == JObj(<< Member(k1, arg1), Member(k2, arg2) >>)
Keyword3(k1, arg1, k2, arg2, k3, arg3) ==
  JObj(<< Member(k1, arg1), Member(k2, arg2), Member(k3, arg3) >>)

PropsA == JObj(<< Member("a", EmptySchema) >>)
PatX == JObj(<< Member("^x", EmptySchema) >>)
OnePrefix == JArr(<< EmptySchema >>)
RequiredOf(k) == Keyword1("required", JArr(<< JStr(k) >>))

\* the applicator chains
ChainSchemas ==
  << Keyword2("properties", PropsA, "additionalProperties", JFalse),
     Keyword2("patternProperties", PatX, "additionalProperties", JFalse),
     Keyword1("additionalProperties", JFalse),
     Keyword3("properties", PropsA, "patternProperties", PatX,
              "unevaluatedProperties", JFalse),
     Keyword2("properties", PropsA, "additionalProperties", EmptySchema),
     Keyword1("properties", PropsA),
     Keyword2("prefixItems", OnePrefix, "items", JFalse),
     Keyword2("prefixItems", OnePrefix, "unevaluatedItems", JFalse),
     Keyword2("prefixItems", OnePrefix, "items", JTrue),
     Keyword2("prefixItems", OnePrefix, "additionalItems", JFalse),
     Keyword2("prefixItems", OnePrefix, "items",
              JArr(<< EmptySchema, TypeIs("string"), TypeIs("number") >>)) >>

ContainsSchemas ==
  << Keyword1("contains", TypeIs("number")),
     Keyword2("contains", TypeIs("number"), "minContains", JNum(0)),
     Keyword2("contains", TypeIs("number"), "maxContains", JNum(1)),
     Keyword2("contains", TypeIs("number"), "minContains", JNum(2)),
     Keyword3("contains", TypeIs("number"), "minContains", JNum(1),
              "maxContains", JNum(2)),
     Keyword1("contains", TypeIs("array")),
     Keyword2("contains", TypeIs("array"), "maxContains", JNum(0)) >>

IfKA ==
  Keyword2("properties", JObj(<< Member("k", Keyword1("const", JStr("A"))) >>),
           "required", JArr(<< JStr("k") >>))

ConditionalSchemas ==
  << Keyword3("if", IfKA, "then", RequiredOf("x"), "else", RequiredOf("y")),
     Keyword2("if", RequiredOf("k"), "then", RequiredOf("x")),
     Keyword2("if", RequiredOf("k"), "else", RequiredOf("y")),
     Keyword1("if", RequiredOf("k")),
     Keyword1("then", RequiredOf("x")),
     Keyword1("else", RequiredOf("y")),
     Keyword2("then", RequiredOf("x"), "else", RequiredOf("y")) >>

NotSchemas ==
  << Keyword1("not", Keyword2("type", JStr("number"), "minimum", JNum(5))),
     Keyword1("not", EmptySchema),
     Keyword1("not", TypeIs("string")),
     Keyword1("not", Keyword2("type", JStr("number"), "maximum", JNum(5))) >>

AtMost3 == Keyword2("type", JStr("number"), "maximum", JNum(3))
AtLeast2 == Keyword2("type", JStr("number"), "minimum", JNum(2))
ClosedA ==
  Keyword3("type", JStr("object"), "properties", PropsA,
           "additionalProperties", JFalse)

LogicSchemas ==
  << Keyword1("allOf", JArr(<< AtMost3, AtLeast2 >>)),
     Keyword1("anyOf", JArr(<< AtMost3, AtLeast2 >>)),
     Keyword1("oneOf", JArr(<< AtMost3, AtLeast2 >>)),
     Keyword1("anyOf", JArr(<< TypeIs("string"), ClosedA >>)),
     Keyword1("oneOf", JArr(<< TypeIs("object"), ClosedA, TypeIs("array") >>)),
     Keyword1("allOf", JArr(<< ClosedA >>)),
     Keyword1("allOf", JArr(<< >>)) >>

UnevaluatedSchemas ==
  << Keyword3("allOf", JArr(<< TypeIs("object") >>),
              "unevaluatedProperties", JFalse, "properties", PropsA),
     Keyword3("allOf", JArr(<< TypeIs("object") >>),
              "properties", PropsA, "unevaluatedProperties", JFalse) >>

\* a combinator below `items`: validated once for every element
NestedSchemas ==
  << Keyword1("items", Keyword1("allOf", JArr(<< ClosedA >>))) >>

\* a tuple closed by `items: false`
TupleSchemas ==
  << Keyword2("prefixItems", JArr(<< TypeIs("string"), TypeIs("number") >>),
              "items", JFalse) >>

\* an object closed by `additionalProperties: false`
ClosedSchemas ==
  << Keyword3("properties", JObj(<< Member("a", TypeIs("string")) >>),
              "patternProperties", JObj(<< Member("^x", TypeIs("number")) >>),
              "additionalProperties", JFalse) >>

\* one keyword with an argument of the wrong kind or sign, and two with a
\* good argument
ErrorSchemas ==
  << Keyword1("maximum", JStr("3")),
     Keyword1("date", JNum(3)),
     Keyword1("maxLength", JNum(0 - 1)),
     Keyword1("items", JNum(3)),
     Keyword1("title", JNum(3)),
     Keyword1("date", JStr("x")),
     Keyword1("maxLength", JNum(0)) >>

\* schema objects with a member of an unknown name, and the same objects
\* without that member
UnknownSchemas ==
  << Keyword2("foo", JNum(1), "type", JStr("number")),
     Keyword2("type", JStr("number"), "foo", JObj(<< Member("bar", JNum(1)) >>)),
     Keyword1("foo", TypeIs("string")),
     Keyword2("foo", JArr(<< JNum(1), Keyword1("maximum", JNum(2)) >>),
              "type", JStr("number")) >>

WithoutUnknown ==
  << TypeIs("number"), TypeIs("number"), EmptySchema, TypeIs("number") >>

\* a closed range of integers
RangeSchemas ==
  << Keyword3("type", JStr("integer"), "minimum", JNum(0), "maximum", JNum(10)) >>

\* the keywords that carry the `allowed` flag, each with false, true and {}
AllowedKeywords ==
  << "items", "additionalItems", "unevaluatedItems", "additionalProperties",
     "unevaluatedProperties" >>

AllowedArgs == << JFalse, JTrue, EmptySchema >>

AllowedSchemas ==
  [i \in 1..(Len(AllowedKeywords) * Len(AllowedArgs)) |->
     Keyword1(AllowedKeywords[((i - 1) \div Len(AllowedArgs)) + 1],
              AllowedArgs[((i - 1) % Len(AllowedArgs)) + 1])]

\* `items` compiled from a schema object, alone and with a sibling chained
\* behind it
ItemsObjectSchemas ==
  << Keyword1("items", TypeIs("string")),
     Keyword2("items", TypeIs("string"), "additionalItems", EmptySchema),
     Keyword2("items", TypeIs("string"), "additionalItems", JFalse),
     Keyword2("items", TypeIs("string"), "unevaluatedItems", EmptySchema),
     Keyword2("additionalItems", EmptySchema, "items", TypeIs("string")) >>

\* two patterns that both match the key x1
TwoPatterns ==
  JObj(<< Member("^x", TypeIs("number")), Member("1$", TypeIs("string")) >>)

\* `patternProperties` as a keyword of the object and as the `alternate` of
\* `properties`
PatternSchemas ==
  << Keyword2("patternProperties", JObj(<< Member("^x", TypeIs("number")) >>),
              "additionalProperties", JFalse),
     Keyword1("patternProperties", TwoPatterns),
     Keyword2("properties", PropsA, "patternProperties", TwoPatterns) >>

\* key names of at most two bytes
PropertyNamesSchemas ==
  << Keyword1("propertyNames", Keyword1("maxLength", JNum(2))) >>

\* a bound on the number of properties of the object held by property `a`
NestedPropSchemas ==
  << Keyword1("properties", JObj(<< Member("a", Keyword1("maxProperties", JNum(1))) >>)),
     Keyword1("properties", JObj(<< Member("a", Keyword1("minProperties", JNum(2))) >>)) >>

\* `const` with a value of each kind
ConstSchemas ==
  << Keyword1("const", JNum(1)),
     Keyword1("const", JStr("x")),
     Keyword1("const", JArr(<< JNum(1), JNum(2) >>)),
     Keyword1("const", JObj(<< Member("b", JNum(2)), Member("a", JNum(1)) >>)),
     Keyword1("const", JTrue),
     Keyword1("const", JNull),
     Keyword1("const", JArr(<< >>)) >>

\* `enum` with scalars, with true / false / null and with composites
EnumSchemas ==
  << Keyword1("enum", JArr(<< JNum(1), JStr("x"), JTrue, JArr(<< JNum(1), JNum(2) >>) >>)),
     Keyword1("enum", JArr(<< JNull, JObj(<< Member("b", JNum(2)), Member("a", JNum(1)) >>),
                              JNum(3) >>)),
     Keyword1("enum", JArr(<< >>)) >>

\* pairs of members, for schema objects that hold them in either order
OrderPairs ==
  << [k1 |-> "unevaluatedProperties", a1 |-> JFalse, k2 |-> "properties", a2 |-> PropsA],
     [k1 |-> "additionalProperties", a1 |-> JFalse, k2 |-> "properties", a2 |-> PropsA],
     [k1 |-> "items", a1 |-> JFalse, k2 |-> "prefixItems", a2 |-> OnePrefix],
     [k1 |-> "maximum", a1 |-> JNum(3), k2 |-> "type", a2 |-> JStr("number")],
     [k1 |-> "required", a1 |-> JArr(<< JStr("a") >>), k2 |-> "properties", a2 |-> PropsA] >>

OrderSchemas ==
  [i \in DOMAIN OrderPairs |->
     Keyword2(OrderPairs[i].k1, OrderPairs[i].a1, OrderPairs[i].k2, OrderPairs[i].a2)]

\* the same objects with the two members exchanged
Reordered ==
  [i \in DOMAIN OrderPairs |->
     Keyword2(OrderPairs[i].k2, OrderPairs[i].a2, OrderPairs[i].k1, OrderPairs[i].a1)]

\* `items: false` alone and behind an empty tuple
EmptyTupleSchemas ==
  << Keyword1("items", JFalse),
     Keyword2("prefixItems", JArr(<< >>), "items", JFalse) >>

\* the kind-specific keywords that take a number, and the numbers they are given
NumericArgKeywords ==
  << "minimum", "maximum", "exclusiveMinimum", "exclusiveMaximum", "multipleOf",
     "minLength", "maxLength", "minItems", "maxItems", "minProperties",
     "maxProperties" >>

NumericArgs == << 1, 2 >>

KindSchemas ==
  [i \in 1..(Len(NumericArgKeywords) * Len(NumericArgs)) |->
     Keyword1(NumericArgKeywords[((i - 1) \div Len(NumericArgs)) + 1],
              JNum(NumericArgs[((i - 1) % Len(NumericArgs)) + 1]))]
  \o << Keyword1("pattern", JStr("^x")),
        Keyword1("pattern", JStr("^a")),
        Keyword1("uniqueItems", JTrue),
        Keyword1("uniqueItems", JFalse),
        RequiredOf("k"),
        Keyword1("required", JArr(<< JStr("a"), JStr("b") >>)),
        Keyword1("dependentRequired",
                 JObj(<< Member("a", JArr(<< JStr("b") >>)) >>)),
        Keyword1("propertyNames", Keyword1("maxLength", JNum(1))),
        Keyword1("propertyNames", TypeIs("string")) >>

Schemas ==
  ChainSchemas \o ContainsSchemas \o ConditionalSchemas \o NotSchemas
  \o LogicSchemas \o UnevaluatedSchemas \o KindSchemas \o NestedSchemas
  \o TupleSchemas \o ClosedSchemas \o ErrorSchemas \o UnknownSchemas
  \o RangeSchemas \o AllowedSchemas \o ItemsObjectSchemas \o PatternSchemas
  \o PropertyNamesSchemas \o NestedPropSchemas \o ConstSchemas \o EnumSchemas
  \o OrderSchemas \o EmptyTupleSchemas

\* where each family starts in Schemas
ChainIds == 1..Len(ChainSchemas)
ContainsIds == {Len(ChainSchemas) + i : i \in 1..Len(ContainsSchemas)}
ConditionalBase == Len(ChainSchemas) + Len(ContainsSchemas)
ConditionalIds == {ConditionalBase + i : i \in 1..Len(ConditionalSchemas)}
NotBase == ConditionalBase + Len(ConditionalSchemas)
NotIds == {NotBase + i : i \in 1..Len(NotSchemas)}
LogicBase == NotBase + Len(NotSchemas)
LogicIds == {LogicBase + i : i \in 1..Len(LogicSchemas)}
UnevaluatedBase == LogicBase + Len(LogicSchemas)
UnevaluatedIds == {UnevaluatedBase + i : i \in 1..Len(UnevaluatedSchemas)}
KindBase == UnevaluatedBase + Len(UnevaluatedSchemas)
KindIds == {KindBase + i : i \in 1..Len(KindSchemas)}
NestedBase == KindBase + Len(KindSchemas)
NestedIds == {NestedBase + i : i \in 1..Len(NestedSchemas)}
TupleBase == NestedBase + Len(NestedSchemas)
TupleIds == {TupleBase + i : i \in 1..Len(TupleSchemas)}
ClosedBase == TupleBase + Len(TupleSchemas)
ClosedIds == {ClosedBase + i : i \in 1..Len(ClosedSchemas)}
ErrorBase == ClosedBase + Len(ClosedSchemas)
ErrorIds == {ErrorBase + i : i \in 1..Len(ErrorSchemas)}
UnknownBase == ErrorBase + Len(ErrorSchemas)
UnknownIds == {UnknownBase + i : i \in 1..Len(UnknownSchemas)}
RangeBase == UnknownBase + Len(UnknownSchemas)
RangeIds == {RangeBase + i : i \in 1..Len(RangeSchemas)}
AllowedBase == RangeBase + Len(RangeSchemas)
AllowedIds == {AllowedBase + i : i \in 1..Len(AllowedSchemas)}
ItemsObjectBase == AllowedBase + Len(AllowedSchemas)
ItemsObjectIds == {ItemsObjectBase + i : i \in 1..Len(ItemsObjectSchemas)}
PatternBase == ItemsObjectBase + Len(ItemsObjectSchemas)
PatternIds == {PatternBase + i : i \in 1..Len(PatternSchemas)}
PropertyNamesBase == PatternBase + Len(PatternSchemas)
PropertyNamesIds == {PropertyNamesBase + i : i \in 1..Len(PropertyNamesSchemas)}
NestedPropBase == PropertyNamesBase + Len(PropertyNamesSchemas)
NestedPropIds == {NestedPropBase + i : i \in 1..Len(NestedPropSchemas)}
ConstBase == NestedPropBase + Len(NestedPropSchemas)
ConstIds == {ConstBase + i : i \in 1..Len(ConstSchemas)}
EnumBase == ConstBase + Len(ConstSchemas)
EnumIds == {EnumBase + i : i \in 1..Len(EnumSchemas)}
OrderBase == EnumBase + Len(EnumSchemas)
OrderIds == {OrderBase + i : i \in 1..Len(OrderSchemas)}
EmptyTupleBase == OrderBase + Len(OrderSchemas)
EmptyTupleIds == {EmptyTupleBase + i : i \in 1..Len(EmptyTupleSchemas)}

Instances ==
  << JNum(1), JNum(3), JNum(7),
     JStr("x"), JStr("abc"),
     JTrue, JNull,
     JArr(<< >>), JArr(<< JNum(1) >>), JArr(<< JNum(1), JStr("a") >>),
     JArr(<< JStr("a") >>), JArr(<< JNum(1), JNum(2) >>),
     JArr(<< JNum(1), JNum(1), JNum(4) >>),
     JArr(<< JObj(<< Member("a", JNum(1)) >>), JObj(<< Member("b", JNum(1)) >>) >>),
     JObj(<< >>), JObj(<< Member("a", JNum(1)) >>), JObj(<< Member("b", JNum(1)) >>),
     JObj(<< Member("a", JNum(1)), Member("b", JNum(2)) >>),
     JObj(<< Member("x1", JNum(1)), Member("z", JNum(2)) >>),
     JObj(<< Member("z", JNum(2)) >>),
     JObj(<< Member("k", JStr("A")), Member("x", JNum(1)) >>),
     JObj(<< Member("k", JStr("B")), Member("y", JNum(1)) >>),
     JObj(<< Member("k", JStr("A")) >>),
     JArr(<< JTrue, JTrue >>), JArr(<< JNull, JFalse, JNull >>),
     JArr(<< JTrue, JFalse, JNull >>),
     JArr(<< JStr("a"), JNum(1) >>), JArr(<< JStr("a"), JNum(1), JTrue >>),
     JObj(<< Member("a", JStr("ok")), Member("x1", JNum(3)) >>),
     JObj(<< Member("a", JStr("ok")), Member("z", JNum(1)) >>),
     JNum(5), JNum(11),
     JObj(<< Member("z", JNum(2)), Member("x1", JNum(1)) >>),
     JObj(<< Member("abc", JNum(1)) >>), JObj(<< Member("a", JStr("abc")) >>),
     JObj(<< Member("a", JObj(<< Member("x", JNum(1)) >>)), Member("b", JNum(2)) >>),
     JObj(<< Member("a", JObj(<< Member("x", JNum(1)), Member("y", JNum(2)) >>)) >>),
     JArr(<< JNum(3), JNum(2) >>), JArr(<< JNum(2), JNum(1) >>),
     JObj(<< Member("b", JNum(1)), Member("a", JNum(2)) >>), JFalse >>

\* the validations one compiled schema is given
MaxCalls == 2

NoThreads == << >>

\* the second compilation has not run
NotCompiled == [done |-> FALSE, err |-> FALSE, h |-> << >>, list |-> << >>]

Init ==
  /\ schema = 0
  /\ compiled = "no"
  /\ heap = << >>
  /\ root = << >>
  /\ heap0 = << >>
  /\ hpre = << >>
  /\ inst = 0
  /\ verdict = "none"
  /\ failed_at = ""
  /\ calls = 0
  /\ ub \in UBOutcomes
  /\ threads = NoThreads
  /\ second = NotCompiled

\* the schema text s is compiled: create_object_and_handle_keyword on the whole text
Compile(s) ==
  /\ compiled = "no"
  /\ \E r \in {CompileSchema(Schemas[s])} :
     /\ schema' = s
     /\ compiled' = IF r.err THEN "error" ELSE "ok"
     /\ heap' = r.h
     /\ heap0' = r.h
     /\ hpre' = r.h
     /\ root' = IF r.err THEN << >> ELSE r.list
  /\ UNCHANGED << inst, verdict, failed_at, calls, ub, threads, second >>

\* one validation of instance i against the compiled schema
Validate(i) ==
  /\ compiled = "ok"
  /\ calls < MaxCalls
  /\ verdict # "crash"
  /\ \E r \in {ValidateSchema(heap, root, Instances[i])} :
     /\ heap' = r.h
     /\ verdict' = r.verdict
     /\ failed_at' = r.failed_at
  /\ hpre' = heap
  /\ inst' = i
  /\ calls' = calls + 1
  /\ UNCHANGED << schema, compiled, root, heap0, ub, threads, second >>

\* the schema text is compiled a second time, into a Keyword List of its own
Recompile ==
  /\ compiled # "no"
  /\ ~second.done
  /\ \E r \in {CompileSchema(Schemas[schema])} :
       second' = [done |-> TRUE, err |-> r.err, h |-> r.h,
                  list |-> IF r.err THEN << >> ELSE r.list]
  /\ UNCHANGED << schema, compiled, heap, root, heap0, hpre, inst, verdict,
                  failed_at, calls, ub, threads >>

Next ==
  \/ \E s \in DOMAIN Schemas : Compile(s)
  \/ \E i \in DOMAIN Instances : Validate(i)
  \/ Recompile

Spec == Init /\ [][Next]_vars

(***************************************************************************)
(* What the specification expects, for the properties below.               *)
(***************************************************************************)
InstDoc == Instances[inst]
InstKind == TypeOfTok(InstDoc[1].tk)
InstCursor == InstanceCursor(InstDoc)
Validated == compiled = "ok" /\ calls >= 1
Decided == Validated /\ verdict \in {"pass", "fail"}

\* the member names of an object text, the element positions of an array text
KeysOf(doc) == {doc[q].s : q \in {ItemStarts(doc, 2)[n] : n \in DOMAIN ItemStarts(doc, 2)}}
ElementsOf(doc) == {ItemStarts(doc, 2)[n] : n \in DOMAIN ItemStarts(doc, 2)}

\* the cursor a validator is given for the element at position q of an array
ElementCursor(doc, q) ==
  json_read_value([json_scan_start(doc, 1, Len(doc)) EXCEPT !.p = q, !.stk = << "A" >>])

\* a sub-schema passes iff all keywords of its Keyword List pass
SubSchemaPasses(h, list, je) == ~ValidateAll(h, list, je).fail

AllIds(h) == [i \in 1..Len(h) |-> i]
NodesNamed(h, names) ==
  {i \in DOMAIN h : h[i].keyword_name \in names
                    /\ ~(h[i].cls = "prefix_items" /\ h[i].keyword_name = "items")}

\* the applicator of the highest priority among the chain's keywords
TerminalOf(h, names) ==
  CHOOSE t \in NodesNamed(h, names) :
    \A i \in NodesNamed(h, names) : h[i].priority <= h[t].priority

RootName == heap0[root[1]].keyword_name
ChainGroup == IF RootName \in ObjectGroup THEN ObjectGroup ELSE ArrayGroup
C1_Terminal == TerminalOf(heap0, ChainGroup)

KeyCaptured(h, key) ==
  \E i \in DOMAIN h :
     \/ h[i].cls = "properties" /\ PropertyOf(h[i], key) # 0
     \/ h[i].cls = "pattern_properties" /\ FirstMatch(h[i], key, 1) # 0

\* the number of elements the prefixItems of the chain capture
PrefixCaptured(h) ==
  IF \E i \in DOMAIN h : h[i].keyword_name = "prefixItems"
  THEN Len(h[CHOOSE i \in DOMAIN h : h[i].keyword_name = "prefixItems"].lists)
  ELSE 0

\* some property (or index) of the instance is captured by no applicator
C1_Uncaptured ==
  IF ChainGroup = ObjectGroup
  THEN \E key \in KeysOf(InstDoc) : ~KeyCaptured(heap0, key)
  ELSE Cardinality(ElementsOf(InstDoc)) > PrefixCaptured(heap0)

\* a chain whose sub-schemas accept everything, on an instance of its kind
C1_Case ==
  /\ Decided
  /\ schema \in ChainIds
  /\ heap0[C1_Terminal].validate_like_prefix = NULL
  /\ InstKind = (IF ChainGroup = ObjectGroup THEN "object" ELSE "array")

\* C1: a property (or array index) that no applicator of the chain captures is
\* accepted iff the terminal applicator's `allowed` flag is true, and rejected
\* otherwise.
C1_FallBackExhaustive ==
  C1_Case => (verdict = "pass" <=> (C1_Uncaptured => heap0[C1_Terminal].allowed))

ContainsNode == heap0[root[1]]
MinContains ==
  IF ContainsNode.min_contains # NULL THEN heap0[ContainsNode.min_contains].value ELSE 1
MatchingElements ==
  Cardinality({q \in ElementsOf(InstDoc) :
                 SubSchemaPasses(heap0, ContainsNode.list, ElementCursor(InstDoc, q))})

\* C2: on an array, `contains` passes iff the number of elements that satisfy
\* the owned sub-schema lies in [min, max], min defaulting to 1 and max to
\* infinity when minContains / maxContains is absent.
C2_ContainsArithmetic ==
  (Decided /\ schema \in ContainsIds /\ InstKind = "array")
  => (verdict = "pass"
      <=> /\ MatchingElements >= MinContains
          /\ (ContainsNode.max_contains # NULL
              => MatchingElements <= heap0[ContainsNode.max_contains].value))

\* the conditions_schema of the top-level keyword `name`; absent when there is none
BranchOf(name) == LastNamed(heap0, AllIds(heap0), name)
BranchPasses(name) ==
  BranchOf(name) = NULL \/ SubSchemaPasses(heap0, heap0[BranchOf(name)].list, InstCursor)

\* C3: the conditional evaluates `if`; when `if` passes the verdict is that of
\* `then` (pass when absent), when `if` fails that of `else` (pass when
\* absent); so {k:A,x:1} and {k:B,y:1} pass and {k:A} fails the example.
C3_ConditionalValidate ==
  (Validated /\ schema \in ConditionalIds /\ BranchOf("if") # NULL)
  => verdict = (IF SubSchemaPasses(heap0, heap0[BranchOf("if")].list, InstCursor)
                THEN (IF BranchPasses("then") THEN "pass" ELSE "fail")
                ELSE (IF BranchPasses("else") THEN "pass" ELSE "fail"))

\* C4: `not` passes iff its sub-schema, the conjunction of all its keywords,
\* fails on the instance.
C4_NotNegates ==
  (Decided /\ schema \in NotIds)
  => (verdict = "pass" <=> ~SubSchemaPasses(heap0, heap0[root[1]].list, InstCursor))

\* the number of sub-schemas of the combinator node that pass on the cursor
PassingSubSchemas(node, je) ==
  Cardinality({i \in DOMAIN node.lists : SubSchemaPasses(heap0, node.lists[i], je)})

CombinatorPasses(node, je) ==
  CASE node.cls = "all_of" -> PassingSubSchemas(node, je) = Len(node.lists)
    [] node.cls = "any_of" -> PassingSubSchemas(node, je) >= 1
    [] node.cls = "one_of" -> PassingSubSchemas(node, je) = 1

\* the combinator below `items` of the nested schemas
NestedCombinator == heap0[heap0[root[1]].list[1]]

\* C5: allOf passes iff every sub-schema passes, anyOf iff at least one does,
\* oneOf iff exactly one does; a sub-schema passes iff all keywords of its
\* Keyword List pass.  Stated for a combinator at the top of the schema, and
\* for a combinator applied to every element of an array.
C5_CombinatorCounting ==
  /\ (Decided /\ schema \in LogicIds)
     => (verdict = "pass" <=> CombinatorPasses(heap0[root[1]], InstCursor))
  /\ (Decided /\ schema \in NestedIds /\ InstKind = "array")
     => (verdict = "pass"
         <=> \A q \in ElementsOf(InstDoc) :
               CombinatorPasses(NestedCombinator, ElementCursor(InstDoc, q)))

\* C6: with unevaluatedProperties false beside allOf and properties {a}, an
\* object with a property other than `a` is rejected, and for the schema
\* {allOf, unevaluatedProperties, properties} on {a:1,b:2} the failing keyword
\* is unevaluatedProperties.
C6_UnevaluatedAcrossCombinators ==
  (Validated /\ schema \in UnevaluatedIds /\ InstKind = "object"
   /\ ~(KeysOf(InstDoc) \subseteq {"a"}))
  => /\ verdict = "fail"
     /\ (schema = UnevaluatedBase + 1 /\ KeysOf(InstDoc) = {"a", "b"}
         => failed_at = "unevaluatedProperties")

\* C7: after any sequence of validate calls every node of the compiled schema
\* has the values it had when compilation finished.
C7_CompiledImmutable == compiled = "ok" => heap = heap0

\* the JSON kind a kind-specific keyword class applies to
NumberClasses == {"minimum", "maximum", "ex_minimum", "ex_maximum", "multiple_of"}
StringClasses == {"min_len", "max_len", "pattern"}
ArrayClasses == {"min_items", "max_items", "unique_items", "contains"}
ObjectClasses == {"min_prop", "max_prop", "required", "dependent_prop", "property_names"}

KindOfClass(cls) ==
  CASE cls \in NumberClasses -> "number"
    [] cls \in StringClasses -> "string"
    [] cls \in ArrayClasses -> "array"
    [] cls \in ObjectClasses -> "object"
    [] OTHER -> "none"

\* the schema is one kind-specific keyword, validated on an instance of another kind
C9_Case ==
  /\ Validated
  /\ schema \in KindIds \cup ContainsIds
  /\ Len(root) = 1
  /\ KindOfClass(heap0[root[1]].cls) \notin {"none", InstKind}

\* C9: a kind-specific keyword accepts every instance whose JSON kind differs
\* from the keyword's kind, whatever the keyword's argument.
C9_KindMismatchInert == C9_Case => verdict = "pass"

\* `required` was validated on an array and accepted it, and the same keyword
\* rejects an object that lacks the name
C9_Witness ==
  /\ C9_Case
  /\ heap0[root[1]].cls = "required"
  /\ InstKind = "array"
  /\ verdict = "pass"
  /\ ValidateSchema(heap0, root, JObj(<< >>)).verdict = "fail"

\* the keywords of the schema text's top-level object
SchemaHas(name) == name \in KeysOf(Schemas[schema])

\* C10: compiling fails iff the object has `if` with neither `then` nor `else`,
\* or `then` or `else` without `if`; and the `if` node's else reference is set
\* exactly when the object has an `else` keyword.
C10_ConditionalStructure ==
  compiled # "no"
  => /\ compiled = "error"
        <=> \/ SchemaHas("if") /\ ~SchemaHas("then") /\ ~SchemaHas("else")
            \/ ~SchemaHas("if") /\ (SchemaHas("then") \/ SchemaHas("else"))
     /\ (compiled = "ok" /\ SchemaHas("if"))
        => (heap0[BranchOf("if")].else_cond # NULL <=> SchemaHas("else"))

\* the schema is `uniqueItems: true` alone, validated on an array
C11_Case ==
  /\ Decided
  /\ Len(root) = 1
  /\ heap0[root[1]].cls = "unique_items"
  /\ heap0[root[1]].is_unique
  /\ InstKind = "array"

\* two elements of the instance have the same canonical form
HasDuplicate(doc) ==
  \E q1, q2 \in ElementsOf(doc) :
     q1 # q2 /\ Normalize(doc, q1) = Normalize(doc, q2)

\* C11: uniqueItems fails on every array that holds two elements of the same
\* canonical form, two true, two false or two null elements included, and
\* passes on every array whose elements are pairwise distinct.
C11_UniqueItems == C11_Case => (verdict = "fail" <=> HasDuplicate(InstDoc))

\* the verdict the Keyword List of the second compilation returns on the
\* instance of the last validation
SecondVerdict == ValidateSchema(second.h, second.list, InstDoc).verdict

\* C12: compiling the same schema text twice yields equivalent Keyword Lists
\* (same nodes, same order, same references), and for every instance the two
\* compiled schemas return the same verdict.
C12_CompileIdempotent ==
  second.done
  => /\ second.err <=> compiled = "error"
     /\ compiled = "ok" => (second.h = heap0 /\ second.list = root)
     /\ Validated => verdict = SecondVerdict

\* the JSON kinds of the elements of an array text, in order
ElementTypes(doc) ==
  [n \in DOMAIN ItemStarts(doc, 2) |-> TypeOfTok(doc[ItemStarts(doc, 2)[n]].tk)]

\* the kinds the tuple {prefixItems: [{type: string}, {type: number}]} asks for
TupleTypes == << "string", "number" >>

C13_Case == Decided /\ schema \in TupleIds /\ InstKind = "array"

MembersOf(doc) == {ItemStarts(doc, 2)[n] : n \in DOMAIN ItemStarts(doc, 2)}

\* what {properties: {a: {type: string}}, patternProperties: {"^x": {type:
\* number}}, additionalProperties: false} asks of the member at position q
ClosedAccepts(doc, q) ==
  IF doc[q].s = "a" THEN doc[q + 1].tk = "str"
  ELSE ReMatch("^x", doc[q].s) /\ doc[q + 1].tk = "num"

C14_Case == Decided /\ schema \in ClosedIds /\ InstKind = "object"

FirstArgument(doc) ==
  json_read_value(json_read_keyname(
    json_scan_next(json_scan_next(json_scan_start(doc, 1, Len(doc))))))

\* the handle_keyword of the schema's first keyword raised the invalid-value error
FirstKeywordReported ==
  InvalidValueReported(create_object(FirstArgument(Schemas[schema]),
                                     Schemas[schema][2].s).cls,
                       Schemas[schema][2].s, FirstArgument(Schemas[schema]))

\* C15: whenever a keyword's handle_keyword reports an invalid argument for its
\* keyword, compilation fails, so no Keyword List of that schema is ever
\* validated against.
C15_CompileErrorsAbort ==
  (compiled # "no" /\ schema \in ErrorIds /\ FirstKeywordReported)
  => (compiled = "error" /\ calls = 0)

\* the verdict on the instance of the schema object without the unknown member
VerdictWithoutUnknown ==
  Let(CompileSchema(WithoutUnknown[schema - UnknownBase]), LAMBDA r :
      ValidateSchema(r.h, r.list, InstDoc).verdict)

\* C16: a schema object with a member of an unknown name compiles and gives,
\* for every instance, the verdict of the same object without that member,
\* whatever value (scalar, array or object) the unknown member carries.
C16_UnknownKeywordNoOp ==
  (compiled # "no" /\ schema \in UnknownIds)
  => /\ compiled = "ok"
     /\ Validated => verdict = VerdictWithoutUnknown

\* what a numeric bound of the class accepts: the number v against the bound m
BoundAccepts(cls, v, m) ==
  CASE cls = "maximum" -> v <= m
    [] cls = "minimum" -> v >= m
    [] cls = "ex_maximum" -> v < m
    [] cls = "ex_minimum" -> v > m

\* the schema is one numeric bound, validated on a number
C17_Case ==
  /\ Decided
  /\ schema \in KindIds
  /\ Len(root) = 1
  /\ heap0[root[1]].cls \in {"maximum", "minimum", "ex_maximum", "ex_minimum"}
  /\ InstKind = "number"

\* C17: on a number v, maximum m accepts iff v <= m, minimum m iff v >= m,
\* exclusiveMaximum m iff v < m, exclusiveMinimum m iff v > m; hence {type:
\* integer, minimum: 0, maximum: 10} accepts 5 and rejects 11 with `maximum`
\* as the first failing keyword.
C17_NumericBounds ==
  /\ C17_Case
     => (verdict = "pass"
         <=> BoundAccepts(heap0[root[1]].cls, InstDoc[1].n, Schemas[schema][3].n))
  /\ (Validated /\ schema \in RangeIds /\ InstKind = "number")
     => /\ verdict = (IF InstDoc[1].n \in 0..10 THEN "pass" ELSE "fail")
        /\ InstDoc[1].n > 10 => failed_at = "maximum"

\* the range rejected 11 at `maximum` and accepts 5
C17_Witness ==
  /\ Validated
  /\ schema \in RangeIds
  /\ InstDoc = JNum(11)
  /\ verdict = "fail"
  /\ failed_at = "maximum"
  /\ ValidateSchema(heap, root, JNum(5)).verdict = "pass"

\* the child nodes of a combinator: the keywords of its sub-schemas
ChildrenOf(h, id) ==
  {h[id].list[k] : k \in DOMAIN h[id].list}
  \cup UNION {{h[id].lists[n][k] : k \in DOMAIN h[id].lists[n]} : n \in DOMAIN h[id].lists}

\* the combinators among the keywords of the top-level Keyword List
RootCombinators ==
  {root[k] : k \in {n \in DOMAIN root :
                      heap0[root[n]].cls \in {"all_of", "any_of", "one_of", "not"}}}

\* C18: a combinator threads its unevaluated node through the children that
\* lack an `alternate` while it validates, and when it returns, whether the
\* sub-schema passed or failed, every child node's `alternate` is what it was
\* before the call.
C18_CombinatorRestores ==
  (Validated /\ schema \in LogicIds \cup NotIds \cup UnevaluatedIds)
  => \A id \in RootCombinators :
        \A c \in ChildrenOf(heap0, id) :
           heap[c].alternate_schema = hpre[c].alternate_schema

\* the nodes met following `alternate` from node id, at most n of them
RECURSIVE ChainFrom(_, _, _)
ChainFrom(h, id, n) ==
  IF id = NULL \/ n = 0 THEN << >>
  ELSE << id >> \o ChainFrom(h, h[id].alternate_schema, n - 1)

\* the node of the top-level Keyword List that belongs to the group, NULL for none
GroupNode(group) ==
  LET sel == SelectSeq(root, LAMBDA id : heap0[id].keyword_name \in group)
  IN IF sel = << >> THEN NULL ELSE sel[1]

\* the applicators of the group that the schema object has
PresentOf(group) == {name \in group : SchemaHas(name)}

GroupChain(group) == ChainFrom(heap0, GroupNode(group), Cardinality(group) + 1)

\* C19: after the interdependence pass, following `alternate` from the
\* group's node in the Keyword List visits every applicator of the group that
\* the object has, in strictly ascending priority, the last one having no
\* `alternate`.
C19_FallBackChain ==
  (compiled = "ok" /\ schema \in ChainIds)
  => \A group \in {ArrayGroup, ObjectGroup} :
        /\ {heap0[GroupChain(group)[k]].keyword_name : k \in DOMAIN GroupChain(group)}
           = PresentOf(group)
        /\ Len(GroupChain(group)) = Cardinality(PresentOf(group))
        /\ \A k \in 1..(Len(GroupChain(group)) - 1) :
              heap0[GroupChain(group)[k]].priority
              < heap0[GroupChain(group)[k + 1]].priority

\* the node compiled for the keyword of a one-keyword schema
OnlyNode == heap0[LastNamed(heap0, AllIds(heap0), Schemas[schema][2].s)]

\* C20: for items, additionalItems, unevaluatedItems, additionalProperties and
\* unevaluatedProperties alike, the compiled node's `allowed` flag is false
\* iff the keyword's argument is the boolean false; it is true for the
\* boolean true and for a schema object.
C20_AllowedFlag ==
  (compiled # "no" /\ schema \in AllowedIds)
  => /\ compiled = "ok"
     /\ OnlyNode.allowed <=> Schemas[schema][3].tk # "false"

C21_Case == Decided /\ schema \in ItemsObjectIds /\ InstKind = "array"

\* C21: when `items` is compiled from the schema object {type: string}, an
\* array is accepted only if every one of its elements satisfies that
\* sub-schema, also when a sibling additionalItems / unevaluatedItems is
\* chained behind `items` as its `alternate`.
C21_ItemsEveryElement ==
  (C21_Case /\ verdict = "pass")
  => \A n \in DOMAIN ElementTypes(InstDoc) : ElementTypes(InstDoc)[n] = "string"

\* the cursor a validator is given for the value of the member whose key is at
\* position q of an object
MemberCursor(doc, q) ==
  json_read_value([json_scan_start(doc, 1, Len(doc)) EXCEPT !.p = q + 1, !.stk = << "O" >>])

\* the node of the class in the compiled schema, NULL for none
NodeOfClass(cls) ==
  IF \E i \in DOMAIN heap0 : heap0[i].cls = cls
  THEN CHOOSE i \in DOMAIN heap0 : heap0[i].cls = cls
  ELSE NULL

\* the patterns of the node that match the key
MatchingPatterns(node, key) == {n \in DOMAIN node.names : ReMatch(node.names[n], key)}

\* what patternProperties, alone or behind `properties`, asks of the member at
\* position q, whatever members come before it
PatternAccepts(doc, q) ==
  LET key == doc[q].s
      properties == NodeOfClass("properties")
      pattern == NodeOfClass("pattern_properties")
  IN IF properties # NULL /\ PropertyOf(heap0[properties], key) # 0
     THEN SubSchemaPasses(heap0, heap0[properties].lists[PropertyOf(heap0[properties], key)],
                          MemberCursor(doc, q))
     ELSE IF MatchingPatterns(heap0[pattern], key) # {}
     THEN \A n \in MatchingPatterns(heap0[pattern], key) :
             SubSchemaPasses(heap0, heap0[pattern].lists[n], MemberCursor(doc, q))
     ELSE ~fall_back_on_alternate_schema(heap0, pattern, MemberCursor(doc, q), key).fail

C22_Case == Decided /\ schema \in PatternIds /\ InstKind = "object"

\* C22: patternProperties treats each key of the instance independently of
\* the keys scanned before it: the sub-schema of every pattern that matches
\* the key is applied to the key's value, in validate and in
\* validate_as_alternate, and a key that matches no pattern is delegated to
\* `alternate`; so an object passes iff each of its members is accepted, in
\* whatever order the members stand.
C22_PatternPerKey ==
  C22_Case
  => (verdict = "pass" <=> \A q \in MembersOf(InstDoc) : PatternAccepts(InstDoc, q))

\* the schema is `propertyNames` alone, validated on an object
C23_Case ==
  /\ Decided
  /\ schema \in KindIds \cup PropertyNamesIds
  /\ Len(root) = 1
  /\ heap0[root[1]].cls = "property_names"
  /\ InstKind = "object"

\* C23: propertyNames applies its sub-schema to each key of the object as if
\* the key were a JSON string value: the object is accepted iff every key
\* name, not the key's value, satisfies the sub-schema; so {propertyNames:
\* {maxLength: 2}} rejects an object with a key of 3 bytes whatever its
\* values are.
C23_PropertyNames ==
  C23_Case
  => (verdict = "pass"
      <=> \A key \in KeysOf(InstDoc) :
             SubSchemaPasses(heap0, heap0[root[1]].list, InstanceCursor(JStr(key))))

\* the number of keys of the object that opens at position p of the text
OwnKeys(doc, p) == Len(ItemStarts(doc, p + 1))

\* what a bound on the number of properties accepts: n keys against the bound m
PropBoundAccepts(cls, n, m) == IF cls = "max_prop" THEN n <= m ELSE n >= m

\* the schema is one bound on the number of properties, validated on an object
C24_Case ==
  /\ Decided
  /\ schema \in KindIds
  /\ Len(root) = 1
  /\ heap0[root[1]].cls \in {"max_prop", "min_prop"}
  /\ InstKind = "object"

\* the schema bounds the properties of the object held by property `a`
C24_NestedCase == Decided /\ schema \in NestedPropIds /\ InstKind = "object"

\* the node of the bound below `properties`
NestedBound == heap0[heap0[root[1]].lists[1][1]]

\* C24: minProperties / maxProperties count exactly the keys of the object
\* being validated, not keys of nested objects and not keys that follow it in
\* an enclosing object: an object with n own keys passes maxProperties m iff
\* n <= m and minProperties m iff n >= m, also when the object is a nested
\* value reached through `properties`.
C24_PropertyCount ==
  /\ C24_Case
     => (verdict = "pass"
         <=> PropBoundAccepts(heap0[root[1]].cls, OwnKeys(InstDoc, 1), heap0[root[1]].num))
  /\ C24_NestedCase
     => (verdict = "pass"
         <=> \A q \in MembersOf(InstDoc) :
                (InstDoc[q].s = "a" /\ InstDoc[q + 1].tk = "{")
                => PropBoundAccepts(NestedBound.cls, OwnKeys(InstDoc, q + 1),
                                    NestedBound.num))

\* the kinds compared by their canonical form
FormKinds == {"object", "array", "string", "number"}

\* the argument of the keyword of a one-keyword schema, which is the third
\* token of the schema text: its kind and its canonical form
ArgumentKind == TypeOfTok(Schemas[schema][3].tk)
ArgumentForm == Normalize(Schemas[schema], 3)

\* the canonical forms, and the kinds, of the elements of an array argument
ArgumentForms ==
  {Normalize(Schemas[schema], ItemStarts(Schemas[schema], 4)[n]) :
     n \in DOMAIN ItemStarts(Schemas[schema], 4)}
ArgumentKinds ==
  {TypeOfTok(Schemas[schema][ItemStarts(Schemas[schema], 4)[n]].tk) :
     n \in DOMAIN ItemStarts(Schemas[schema], 4)}

C25_ConstCase == Decided /\ schema \in ConstIds
C25_EnumCase == Decided /\ schema \in EnumIds

\* C25: const accepts an instance iff the instance's kind equals the stored
\* kind tag and, for objects, arrays, strings and numbers, its canonical form
\* equals the stored canonical form, which is that of the keyword's argument;
\* enum accepts an instance iff it is true / false / null and the matching
\* has_true / has_false / has_null bit is set, or its canonical form is a
\* member of the stored set, the canonical forms of the argument's elements.
C25_ConstEnum ==
  /\ C25_ConstCase
     => /\ OnlyNode.type = {ArgumentKind}
        /\ ArgumentKind \in FormKinds => OnlyNode.const_json_value = ArgumentForm
        /\ verdict = "pass"
           <=> /\ {InstKind} = OnlyNode.type
               /\ InstKind \in FormKinds
                  => Normalize(InstDoc, 1) = OnlyNode.const_json_value
  /\ C25_EnumCase
     => /\ OnlyNode.enum_scalar = ArgumentKinds \cap {"true", "false", "null"}
        /\ OnlyNode.enum_values = ArgumentForms
        /\ verdict = "pass"
           <=> IF InstKind \in {"true", "false", "null"}
               THEN InstKind \in OnlyNode.enum_scalar
               ELSE Normalize(InstDoc, 1) \in OnlyNode.enum_values

\* const {b:2,a:1} accepted {a:1,b:2}, whose members stand in the other order,
\* and rejects {b:1,a:2}; const [1,2] rejects [3,2]
C25_Witness ==
  /\ C25_ConstCase
  /\ Schemas[schema] = Keyword1("const", JObj(<< Member("b", JNum(2)), Member("a", JNum(1)) >>))
  /\ InstDoc = JObj(<< Member("a", JNum(1)), Member("b", JNum(2)) >>)
  /\ verdict = "pass"
  /\ ValidateSchema(heap, root, JObj(<< Member("b", JNum(1)), Member("a", JNum(2)) >>)).verdict
     = "fail"
  /\ Let(CompileSchema(Keyword1("const", JArr(<< JNum(1), JNum(2) >>))), LAMBDA r :
         ValidateSchema(r.h, r.list, JArr(<< JNum(3), JNum(2) >>)).verdict = "fail")

\* the verdict the Keyword List returned on the instance when it was fresh from
\* the compiler
FreshVerdict == ValidateSchema(heap0, root, InstDoc).verdict

\* C26: repeated validation is deterministic: for every compiled schema and
\* every sequence of validate calls, the verdict returned for an instance is
\* the one a first call returns for it, whatever instances were validated in
\* between.
C26_RepeatDeterministic == Validated => verdict = FreshVerdict

\* the conditional nodes of the top-level Keyword List
RootConditionals ==
  {root[k] : k \in {n \in DOMAIN root : heap0[root[n]].cls \in {"if", "then", "else"}}}

\* C27: no validate call follows an unset reference: after compiling a schema
\* that the compiler accepts, the if_cond of every conditional node that
\* validate is called on is set, and no validation of any instance ends in a
\* call through a null reference.
C27_NoUnsetReference ==
  /\ compiled = "ok" => \A id \in RootConditionals : heap0[id].if_cond # NULL
  /\ Validated => verdict # "crash"

\* C28: the verdict does not depend on the order of the members of a schema
\* object: the object with its two members exchanged compiles iff the object
\* compiles, and the two compiled schemas accept exactly the same instances
\* (compared on the first validation of each).
C28_MemberOrder ==
  (compiled # "no" /\ schema \in OrderIds)
  => Let(CompileSchema(Reordered[schema - OrderBase]), LAMBDA r :
         /\ r.err <=> compiled = "error"
         /\ (Validated /\ calls = 1 /\ ~r.err)
            => verdict = ValidateSchema(r.h, r.list, InstDoc).verdict)

\* the schema is `uniqueItems: false` alone, validated on an array
C29_Case ==
  /\ Decided
  /\ schema \in KindIds
  /\ Schemas[schema] = Keyword1("uniqueItems", JFalse)
  /\ InstKind = "array"

\* C29: uniqueItems compiled from the boolean false imposes no constraint: it
\* accepts every array, arrays with duplicate elements included.
C29_UniqueItemsFalse == C29_Case => verdict = "pass"

\* the schemas whose only keywords are array applicators
ArrayApplicatorIds == EmptyTupleIds \cup TupleIds \cup ItemsObjectIds

\* C30: an empty array is accepted by every array applicator; {items: false}
\* alone accepts [] and rejects exactly the arrays with at least one element,
\* the same verdicts as {prefixItems: [], items: false}.
C30_EmptyArray ==
  /\ (Decided /\ schema \in ArrayApplicatorIds /\ InstDoc = JArr(<< >>))
     => verdict = "pass"
  /\ (Decided /\ schema \in EmptyTupleIds /\ InstKind = "array")
     => (verdict = "pass" <=> ElementsOf(InstDoc) = {})

(***************************************************************************)
(* One compiled schema shared by concurrent validations.  A validation     *)
(* runs the Keyword List in order; between two iterations of the loop of   *)
(* Json_schema_prefix_items::validate, and between two sub-schemas of      *)
(* Json_schema_logic::validate, the other validation may run.  The nodes   *)
(* are written without synchronisation, so these interleavings are some of *)
(* the outcomes of the data race.                                          *)
(***************************************************************************)
NumThreads == 2
ThreadIds == 1..NumThreads

\* schemas without a regular expression
SharedSchemas ==
  << Keyword2("prefixItems", OnePrefix, "items",
              JArr(<< EmptySchema, TypeIs("string"), TypeIs("number") >>)),
     Keyword2("prefixItems", OnePrefix, "items", JFalse),
     Keyword1("allOf", JArr(<< ClosedA >>)),
     Keyword2("anyOf", JArr(<< AtMost3, AtLeast2 >>), "maxItems", JNum(1)) >>

SharedInstances ==
  << JArr(<< JNum(1), JStr("a") >>),
     JArr(<< JNum(1) >>),
     JObj(<< Member("a", JNum(1)) >>),
     JObj(<< Member("b", JNum(1)) >>),
     JNum(3) >>

IdleThread ==
  [st |-> "idle", inst |-> 0, pos |-> 0, je |-> json_scan_start(<< >>, 1, 0),
   cur |-> json_scan_start(<< >>, 1, 0), level |-> 0, k |-> 0, i |-> 0,
   count |-> 0, verdict |-> "none"]

InitConc ==
  /\ schema = 0
  /\ compiled = "no"
  /\ heap = << >>
  /\ root = << >>
  /\ heap0 = << >>
  /\ hpre = << >>
  /\ inst = 0
  /\ verdict = "none"
  /\ failed_at = ""
  /\ calls = 0
  /\ ub = "crash"
  /\ threads = [t \in ThreadIds |-> IdleThread]
  /\ second = NotCompiled

CompileShared(s) ==
  /\ compiled = "no"
  /\ \E r \in {CompileSchema(SharedSchemas[s])} :
     /\ schema' = s
     /\ compiled' = IF r.err THEN "error" ELSE "ok"
     /\ heap' = r.h
     /\ heap0' = r.h
     /\ hpre' = r.h
     /\ root' = IF r.err THEN << >> ELSE r.list
  /\ UNCHANGED << inst, verdict, failed_at, calls, ub, threads, second >>

Finish(t, v) == [threads EXCEPT ![t].st = "done", ![t].verdict = v]

\* thread t is given instance i
Begin(t, i) ==
  /\ compiled = "ok"
  /\ threads[t].st = "idle"
  /\ threads' = [threads EXCEPT ![t].st = "run", ![t].inst = i, ![t].pos = 1,
                                ![t].je = InstanceCursor(SharedInstances[i])]
  /\ UNCHANGED << schema, compiled, heap, root, heap0, hpre, inst, verdict,
                  failed_at, calls, ub, second >>

\* thread t calls validate on the next keyword of the Keyword List; the calls
\* of prefixItems and of the combinators run on in PrefixStep and LogicStep
RunStep(t) ==
  LET th == threads[t] IN
  /\ th.st = "run"
  /\ IF th.pos > Len(root)
     THEN threads' = Finish(t, "pass") /\ heap' = heap
     ELSE LET id == root[th.pos]
              cls == heap[id].cls
          IN IF cls = "prefix_items" /\ th.je.vt = "array"
             THEN /\ threads' = [threads EXCEPT ![t].st = "prefix", ![t].cur = th.je,
                                                ![t].level = stack_p(th.je), ![t].k = 0]
                  /\ heap' = heap
             ELSE IF cls \in {"one_of", "any_of", "all_of"}
             THEN /\ threads' = [threads EXCEPT ![t].st = "logic", ![t].i = 1,
                                                ![t].count = 0]
                  /\ heap' = SetLogicAlternate(heap, id, th.je)
             ELSE \E r \in {validate(heap, id, th.je)} :
                  /\ heap' = r.h
                  /\ threads' = IF r.crash THEN Finish(t, "crash")
                                ELSE IF r.fail THEN Finish(t, "fail")
                                ELSE [threads EXCEPT ![t].pos = @ + 1]
  /\ UNCHANGED << schema, compiled, root, heap0, hpre, inst, verdict, failed_at,
                  calls, ub, second >>

\* one iteration of the loop of Json_schema_prefix_items::validate
PrefixStep(t) ==
  LET th == threads[t]
      id == root[th.pos]
  IN /\ th.st = "prefix"
     /\ \E j1 \in {json_scan_next(th.cur)} :
        IF th.cur.p <= th.cur.lim /\ j1.rc = 0 /\ stack_p(j1) >= th.level
        THEN \E j2 \in {json_read_value(j1)} :
             IF j2.rc # 0 THEN threads' = Finish(t, "fail") /\ heap' = heap
             ELSE \E r \in {PrefixIteration(heap, id, j2, th.k)} :
                  /\ heap' = r.h
                  /\ threads' = IF r.crash THEN Finish(t, "crash")
                                ELSE IF r.fail THEN Finish(t, "fail")
                                ELSE [threads EXCEPT ![t].cur = r.je, ![t].k = r.k]
        ELSE /\ threads' = [threads EXCEPT ![t].st = "run", ![t].pos = @ + 1]
             /\ heap' = heap
     /\ UNCHANGED << schema, compiled, root, heap0, hpre, inst, verdict, failed_at,
                     calls, ub, second >>

\* one sub-schema of the outer loop of Json_schema_logic::validate, or the
\* validate_count that follows the loop
LogicStep(t) ==
  LET th == threads[t]
      id == root[th.pos]
  IN /\ th.st = "logic"
     /\ IF th.i > Len(heap[id].lists)
        THEN /\ heap' = heap
             /\ threads' = IF validate_count(heap[id].cls, th.count, Len(heap[id].lists))
                           THEN Finish(t, "fail")
                           ELSE [threads EXCEPT ![t].st = "run", ![t].pos = @ + 1]
        ELSE \E r \in {LogicSubSchema(heap, id, th.je, th.i, th.count)} :
             /\ heap' = r.h
             /\ threads' = IF r.crash THEN Finish(t, "crash")
                           ELSE [threads EXCEPT ![t].i = @ + 1, ![t].count = r.count]
     /\ UNCHANGED << schema, compiled, root, heap0, hpre, inst, verdict, failed_at,
                     calls, ub, second >>

NextConc ==
  \/ \E s \in DOMAIN SharedSchemas : CompileShared(s)
  \/ \E t \in ThreadIds : \E i \in DOMAIN SharedInstances : Begin(t, i)
  \/ \E t \in ThreadIds : RunStep(t)
  \/ \E t \in ThreadIds : PrefixStep(t)
  \/ \E t \in ThreadIds : LogicStep(t)

SpecConc == InitConc /\ [][NextConc]_vars

\* the verdict of instance i validated alone on the schema as compiled
AloneVerdict(i) == ValidateSchema(heap0, root, SharedInstances[i]).verdict

\* C8: in every interleaving of two validations of one compiled schema, each
\* validation returns the verdict it returns when run alone.
C8_SharedValidation ==
  \A t \in ThreadIds :
     threads[t].st = "done" => threads[t].verdict = AloneVerdict(threads[t].inst)

====
